---- MODULE Spec2Model ----
(***************************************************************************)
(* A model of the ComfortLink II protocol tools: the packet parser         *)
(* (tools/packet.py), the capture file and the capture analyzer            *)
(* (tools/capture.py, tools/analyze.py).                                   *)
(*                                                                         *)
(* Conventions.                                                            *)
(*   bytes  a sequence of naturals 0..255 (1-based here, 0-based in the    *)
(*          source: data[k] in Python is data[k+1] below).                 *)
(*   str    a sequence of character codes (ord of each character), so that *)
(*          chr(b), hex digits, upper/lower case and substring search are  *)
(*          computed and not assumed.  The text of every literal is given  *)
(*          in a comment beside it.                                        *)
(*   None   the value NoneValue, distinct from every str.                  *)
(*   float  timestamps are opaque values that the code only copies.        *)
(***************************************************************************)
EXTENDS Integers, Sequences, FiniteSets, TLC

VARIABLES
    data,           \* Packet.from_bytes: the bytes argument of the last call
    timestamp,      \* Packet.from_bytes: the timestamp argument of the last call
    packet,         \* the Packet object under inspection
    call,           \* the last Packet operation invoked, with its arguments
    ret,            \* how that operation ended: its return value or its exception
    capture_file,   \* the bytes of the capture file on disk
    packets,        \* CaptureAnalyzer.packets
    addresses,      \* CaptureAnalyzer.addresses, a Counter
    message_types,  \* CaptureAnalyzer.message_types, a Counter
    conversations,  \* CaptureAnalyzer.conversations, a defaultdict(list)
    analyzer_call,  \* the last CaptureAnalyzer operation invoked, with its arguments
    analyzer_out,   \* what that operation returned or put into its tables
    written,        \* the (timestamp, data) pairs handed to _write_packet so far
    replay_packets, \* PacketReplayer.packets
    replay_call,    \* the last PacketReplayer operation invoked, with its arguments
    replay_options, \* replay.main: the command-line options of the run
    confirmation,   \* replay.main: what Confirm.ask returned: "unasked", "yes", "no"
    replay_conn,    \* PacketReplayer.serial_conn: "none", "open" or "closed"
    bus_written,    \* the arguments of serial_conn.write, in order
    replay_exit,    \* how replay.main ended: its return or its exception
    replay_pc,      \* where replay.main is: "new", "confirm", "run" or "ended"
    running,        \* BusCapture.running
    serial_conn,    \* the bytes waiting in the serial port's input queue
    buffer,         \* BusCapture.start: the local bytearray buffer
    last_data_time, \* BusCapture.start: the local last_data_time
    clock,          \* what time.time() returns, in milliseconds
    packets_captured, \* BusCapture.packets_captured
    bytes_captured, \* BusCapture.bytes_captured
    capture_pc,     \* where the BusCapture object is: "new", "loop" or "stopped"
    port_read,      \* every byte serial_conn.read has returned, in order
    quality_call,   \* analyze_data_quality: the data argument of the last call
    quality_out,    \* analyze_data_quality: the dict it returned
    try_all,        \* baudrate_detect.main: the --all flag
    results,        \* baudrate_detect.main: the local list results
    probed,         \* the baud rates try_baud_rate was called with, in order
    best,           \* baudrate_detect.main: the entry reported as best match
    baud_pc,        \* where baudrate_detect.main is: "new", "probing" or "done"
    signal_call,    \* the last signal_analyze function invoked, with its arguments
    signal_out      \* what that function returned

codecVars == <<data, timestamp, packet, call, ret>>

analyzerVars ==
    <<capture_file, packets, addresses, message_types, conversations,
      analyzer_call, analyzer_out>>

replayMainVars ==
    <<replay_options, confirmation, replay_conn, bus_written, replay_exit, replay_pc>>

replayVars == <<written, replay_packets, replay_call, replayMainVars>>

captureVars ==
    <<running, serial_conn, buffer, last_data_time, clock, packets_captured,
      bytes_captured, capture_pc, port_read>>

proberVars ==
    <<quality_call, quality_out, try_all, results, probed, best, baud_pc>>

signalVars == <<signal_call, signal_out>>

vars ==
    <<codecVars, analyzerVars, replayVars, captureVars, proberVars, signalVars>>

(***************************************************************************)
(* Bounds of the model and the sample inputs.                              *)
(***************************************************************************)

\* Frames of every length 0..MaxShortLen are decoded.
MaxShortLen == 17

\* Long frames around the 240-byte payload limit and the 255 length-byte limit:
\* 12 + 240, 12 + 241, 12 + 255 and one more.
LongLens == {252, 253, 267, 268}

FrameLens == (0 .. MaxShortLen) \cup LongLens

\* dest hi, dest lo, src hi, src lo, msg_type, sequence
HeaderChoices ==
    { <<32, 1, 64, 1, 1, 0>>, <<0, 0, 0, 0, 0, 0>>, <<255, 255, 31, 31, 5, 10>> }

\* the declared payload length, byte 6 of the header
LengthBytes == {0, 1, 4, 5, 240, 241, 255}

\* the bytes after the length byte repeat one of these patterns:
\* zeros, "HVAC", and the edges of the printable range (0x1f ' ' '.' '~' DEL 0xff)
Patterns == { <<0>>, <<72, 86, 65, 67>>, <<31, 32, 46, 126, 127, 255>> }

\* the two trailing bytes of a frame of at least 12 bytes
ChecksumPairs == { <<0, 0>>, <<18, 52>> }

\* two floats, 0.0 (the default) and another, as opaque values
Timestamps == {0, 1234567890}

\* separator arguments of to_hex: "", " " (the default), ":" and "é"
Separators == { <<>>, <<32>>, <<58>>, <<233>> }

MkFrame(n, h, lb, p, ck) ==
    [i \in 1 .. n |->
        IF n >= 12 /\ i > n - 2 THEN ck[i - (n - 2)]
        ELSE IF i <= 6 THEN h[i]
        ELSE IF i = 7 THEN lb
        ELSE p[((i - 8) % Len(p)) + 1]]

Frames ==
    { MkFrame(n, h, lb, p, ck) :
        n \in FrameLens, h \in HeaderChoices, lb \in LengthBytes,
        p \in Patterns, ck \in ChecksumPairs }

(***************************************************************************)
(* Python built-ins the source relies on.                                  *)
(***************************************************************************)

NoneValue == << -1 >>

\* truth value of an Optional[str] / bytes: None and the empty value are false
Truthy(x) == x # NoneValue /\ x # <<>>

Min(a, b) == IF a < b THEN a ELSE b

Max(a, b) == IF a > b THEN a ELSE b

\* s[lo:hi] with Python's clamping; a negative index counts from the end
SliceIndex(s, k) == IF k < 0 THEN Max(Len(s) + k, 0) ELSE Min(k, Len(s))

Slice(s, lo, hi) == SubSeq(s, SliceIndex(s, lo) + 1, SliceIndex(s, hi))

RECURSIVE BitOr(_, _)
\* a | b on non-negative integers
BitOr(a, b) ==
    IF a = 0 THEN b
    ELSE IF b = 0 THEN a
    ELSE (IF a % 2 = 1 \/ b % 2 = 1 THEN 1 ELSE 0) + 2 * BitOr(a \div 2, b \div 2)

RECURSIVE BitAnd(_, _)
\* a & b on non-negative integers
BitAnd(a, b) ==
    IF a = 0 \/ b = 0 THEN 0
    ELSE (IF a % 2 = 1 /\ b % 2 = 1 THEN 1 ELSE 0) + 2 * BitAnd(a \div 2, b \div 2)

\* a << n
ShiftLeft(a, n) == a * (2 ^ n)

RECURSIVE SumFrom(_, _)
\* sum(s[i:]) (i is 1-based)
SumFrom(s, i) == IF i > Len(s) THEN 0 ELSE s[i] + SumFrom(s, i + 1)

RECURSIVE Decimal(_)
\* str(n) / f"{n}" for n >= 0
Decimal(n) == IF n < 10 THEN <<48 + n>> ELSE Append(Decimal(n \div 10), 48 + (n % 10))

\* one lowercase / uppercase hex digit
HexDigitLower(d) == IF d < 10 THEN 48 + d ELSE 87 + d

HexDigitUpper(d) == IF d < 10 THEN 48 + d ELSE 55 + d

RECURSIVE HexUpper(_)
\* f"{n:X}"
HexUpper(n) ==
    IF n < 16 THEN <<HexDigitUpper(n)>>
    ELSE Append(HexUpper(n \div 16), HexDigitUpper(n % 16))

\* f"{n:0wX}": uppercase hex, padded with '0' to at least w characters
FormatX(n, w) ==
    LET digits == HexUpper(n)
    IN  [i \in 1 .. Max(w - Len(digits), 0) |-> 48] \o digits

Return(v) == [kind |-> "return", value |-> v]

Raise(msg) == [kind |-> "raise", value |-> msg]

\* "sep must be length 1."
SepLengthError ==
    <<115, 101, 112, 32, 109, 117, 115, 116, 32, 98, 101, 32, 108, 101, 110,
      103, 116, 104, 32, 49, 46>>

\* "sep must be ASCII."
SepAsciiError ==
    <<115, 101, 112, 32, 109, 117, 115, 116, 32, 98, 101, 32, 65, 83, 67, 73, 73, 46>>

\* bytes.hex(sep): two lowercase hex digits per byte, sep between bytes.
\* CPython raises ValueError unless sep is one ASCII character.
BytesHex(bytes, sep) ==
    IF Len(sep) # 1 THEN Raise(SepLengthError)
    ELSE IF sep[1] > 127 THEN Raise(SepAsciiError)
    ELSE Return(
        [k \in 1 .. (IF bytes = <<>> THEN 0 ELSE 3 * Len(bytes) - 1) |->
            LET b == bytes[((k - 1) \div 3) + 1]
                r == (k - 1) % 3
            IN  IF r = 0 THEN HexDigitLower(b \div 16)
                ELSE IF r = 1 THEN HexDigitLower(b % 16)
                ELSE sep[1]])

(***************************************************************************)
(* tools/packet.py: class Packet                                           *)
(***************************************************************************)

\* the dataclass constructor Packet(raw=..., timestamp=...) with its defaults
Packet(raw, ts) ==
    [raw |-> raw, timestamp |-> ts,
     dest_addr |-> 0, src_addr |-> 0, msg_type |-> 0, sequence |-> 0,
     payload_length |-> 0, header_extra |-> <<>>,
     payload |-> <<>>, checksum |-> 0, checksum_valid |-> FALSE,
     parse_error |-> NoneValue]

\* a slip: cls(raw=data), the timestamp left at its default 0.0
NewPacketNoTimestamp(bytes, ts) == Packet(bytes, 0)

\* packet = cls(raw=data, timestamp=timestamp)
NewPacket(bytes, ts) == Packet(bytes, ts)

\* a slip: the floor taken as 11 bytes
TooShortOffByOne(bytes) == Len(bytes) < 11

\* if len(data) < 12
TooShort(bytes) == Len(bytes) < 12

\* f"Packet too short: {len(data)} bytes"
TooShortMessage(bytes) ==
    <<80, 97, 99, 107, 101, 116, 32, 116, 111, 111, 32, 115, 104, 111, 114, 116, 58, 32>>
    \o Decimal(Len(bytes)) \o <<32, 98, 121, 116, 101, 115>>

\* f"Payload length mismatch: expected {packet.payload_length}, available {len(data) - 12}"
\* (n is len(data))
MismatchMessage(payload_length, n) ==
    <<80, 97, 121, 108, 111, 97, 100, 32, 108, 101, 110, 103, 116, 104, 32, 109,
      105, 115, 109, 97, 116, 99, 104, 58, 32, 101, 120, 112, 101, 99, 116, 101,
      100, 32>>
    \o Decimal(payload_length)
    \o <<44, 32, 97, 118, 97, 105, 108, 97, 98, 108, 101, 32>>
    \o Decimal(n - 12)

\* a slip: the two bytes swapped (little-endian)
Word16Swapped(hi, lo) == BitOr(ShiftLeft(lo, 8), hi)

\* (hi << 8) | lo
Word16(hi, lo) == BitOr(ShiftLeft(hi, 8), lo)

\* a slip: data[10:], the checksum bytes taken into the payload
FallbackPayloadWithChecksum(bytes) == Slice(bytes, 10, Len(bytes))

\* packet.payload = data[10:-2]
FallbackPayload(bytes) == Slice(bytes, 10, -2)

\* Packet.calculate_checksum: sum(data) & 0xFFFF
calculate_checksum(bytes) == BitAnd(SumFrom(bytes, 1), 65535)

\* a validator that compares the stored checksum with calculate_checksum
VerifyChecksumBySum(self) == calculate_checksum(Slice(self.raw, 0, -2)) = self.checksum

\* Packet._verify_checksum: the placeholder, return True
_verify_checksum(self) == TRUE

\* Packet.from_bytes.  With len(data) >= 12 every index 0..6, -2, -1 exists and
\* slices never raise, so the except branch is never entered.
from_bytes(bytes, ts) ==
    LET new == NewPacket(bytes, ts)
    IN  IF TooShort(bytes)
        THEN [new EXCEPT !.parse_error = TooShortMessage(bytes)]
        ELSE
            LET hdr == [new EXCEPT
                            !.dest_addr = Word16(bytes[1], bytes[2]),
                            !.src_addr = Word16(bytes[3], bytes[4]),
                            !.msg_type = bytes[5],
                            !.sequence = bytes[6],
                            !.payload_length = bytes[7],
                            !.header_extra = Slice(bytes, 7, 10)]
                payload_end == 10 + hdr.payload_length
                body == IF payload_end > Len(bytes) - 2
                        THEN [hdr EXCEPT
                                !.parse_error = MismatchMessage(hdr.payload_length, Len(bytes)),
                                !.payload = FallbackPayload(bytes)]
                        ELSE [hdr EXCEPT !.payload = Slice(bytes, 10, payload_end)]
                summed == [body EXCEPT
                                !.checksum = Word16(bytes[Len(bytes) - 1], bytes[Len(bytes)])]
            IN  [summed EXCEPT !.checksum_valid = _verify_checksum(summed)]

\* Packet.to_hex: self.raw.hex(separator)
to_hex(self, separator) == BytesHex(self.raw, separator)

\* Packet.format_header
format_header(self) ==
    Return(<<91>> \o FormatX(self.src_addr, 4)                  \* "["
           \o <<32, 45, 62, 32>> \o FormatX(self.dest_addr, 4)  \* " -> "
           \o <<93, 32>>                                        \* "] "
           \o <<84, 121, 112, 101, 58>> \o FormatX(self.msg_type, 2)    \* "Type:"
           \o <<32, 83, 101, 113, 58>> \o FormatX(self.sequence, 2)     \* " Seq:"
           \o <<32, 76, 101, 110, 58>> \o Decimal(self.payload_length)) \* " Len:"

\* a slip: 32 <= b <= 127, DEL shown as itself
AsciiCharInclusive(b) == IF 32 <= b /\ b <= 127 THEN b ELSE 46

\* chr(b) if 32 <= b < 127 else "."
AsciiChar(b) == IF 32 <= b /\ b < 127 THEN b ELSE 46

\* Packet.format_payload
format_payload(self) ==
    IF ~Truthy(self.payload)
    THEN Return(<<40, 101, 109, 112, 116, 121, 41>>)            \* "(empty)"
    ELSE
        LET hex_part == BytesHex(self.payload, <<32>>)
            ascii_part == [i \in 1 .. Len(self.payload) |-> AsciiChar(self.payload[i])]
        IN  IF hex_part.kind = "raise" THEN hex_part
            ELSE Return(hex_part.value \o <<32, 32, 124>> \o ascii_part \o <<124>>)

\* Packet.__str__
__str__(self) ==
    IF Truthy(self.parse_error)
    THEN
        LET hex == to_hex(self, <<32>>)
        IN  IF hex.kind = "raise" THEN hex
            ELSE Return(<<91, 69, 82, 82, 79, 82, 93, 32>>      \* "[ERROR] "
                        \o self.parse_error \o <<58, 32>> \o hex.value)
    ELSE
        LET header == format_header(self)
            payload == format_payload(self)
            checksum_status == IF self.checksum_valid THEN <<79, 75>> ELSE <<66, 65, 68>>
        IN  IF header.kind = "raise" THEN header
            ELSE IF payload.kind = "raise" THEN payload
            ELSE Return(header.value \o <<32, 67, 82, 67, 58>> \o checksum_status   \* " CRC:"
                        \o <<10, 32, 32, 80, 97, 121, 108, 111, 97, 100, 58, 32>>   \* "\n  Payload: "
                        \o payload.value)

(***************************************************************************)
(* The life of one Packet object: from_bytes is a classmethod that builds  *)
(* a new object, which is then rendered any number of times.  Before the   *)
(* call the object is Packet(raw=b""), the bare constructor.               *)
(***************************************************************************)

NoCall == [op |-> "none", separator |-> <<>>]

NoReturn == [kind |-> "none", value |-> <<>>]

CodecInit ==
    /\ data = <<>>
    /\ timestamp = 0
    /\ packet = Packet(<<>>, 0)
    /\ call = NoCall
    /\ ret = NoReturn

FromBytes ==
    /\ call = NoCall
    /\ \E bytes \in Frames, ts \in Timestamps :
        /\ data' = bytes
        /\ timestamp' = ts
        /\ packet' = from_bytes(bytes, ts)
        /\ call' = [op |-> "from_bytes", separator |-> <<>>]
        /\ ret' = Return(<<>>)
    /\ UNCHANGED <<analyzerVars, replayVars, captureVars, proberVars, signalVars>>

ToHex ==
    /\ \E separator \in Separators :
        /\ call' = [op |-> "to_hex", separator |-> separator]
        /\ ret' = to_hex(packet, separator)
    /\ UNCHANGED <<data, timestamp, packet>>
    /\ UNCHANGED <<analyzerVars, replayVars, captureVars, proberVars, signalVars>>

FormatHeader ==
    /\ call' = [op |-> "format_header", separator |-> <<>>]
    /\ ret' = format_header(packet)
    /\ UNCHANGED <<data, timestamp, packet>>
    /\ UNCHANGED <<analyzerVars, replayVars, captureVars, proberVars, signalVars>>

FormatPayload ==
    /\ call' = [op |-> "format_payload", separator |-> <<>>]
    /\ ret' = format_payload(packet)
    /\ UNCHANGED <<data, timestamp, packet>>
    /\ UNCHANGED <<analyzerVars, replayVars, captureVars, proberVars, signalVars>>

Str ==
    /\ call' = [op |-> "__str__", separator |-> <<>>]
    /\ ret' = __str__(packet)
    /\ UNCHANGED <<data, timestamp, packet>>
    /\ UNCHANGED <<analyzerVars, replayVars, captureVars, proberVars, signalVars>>

Next ==
    \/ FromBytes
    \/ ToHex
    \/ FormatHeader
    \/ FormatPayload
    \/ Str

(***************************************************************************)
(* The capture file: BusCapture._write_packet (tools/capture.py) writes it *)
(* and CaptureAnalyzer.load_capture (tools/analyze.py) reads it.           *)
(***************************************************************************)

\* At most MaxPackets records are written to a file and held by an analyzer.
MaxPackets == 3

\* find_patterns is called with min_occurrences in 1..MaxMinOccurrences.
MaxMinOccurrences == 3

\* The frames a capture is made of, with their capture timestamps:
\*   1. 4001 -> 2001, type 1, declared length 4, payload "HVAC"
\*   2. 2001 -> 4001, type 2, declared length 4, payload "HVAC"
\*   3. 4001 -> 2001, type 1, declared length 9 but only 4 bytes "HVAC": a mismatch
\*   4. three bytes: too short
\*   5. 2001 -> 2001, type 1, declared length 0, no payload
CaptureRecords ==
    { [timestamp |-> 1,
       data |-> <<32, 1, 64, 1, 1, 0, 4, 0, 0, 0, 72, 86, 65, 67, 0, 0>>],
      [timestamp |-> 2,
       data |-> <<64, 1, 32, 1, 2, 1, 4, 0, 0, 0, 72, 86, 65, 67, 0, 0>>],
      [timestamp |-> 3,
       data |-> <<32, 1, 64, 1, 1, 2, 9, 0, 0, 0, 72, 86, 65, 67, 0, 0>>],
      [timestamp |-> 4,
       data |-> <<32, 1, 64>>],
      [timestamp |-> 5,
       data |-> <<32, 1, 32, 1, 1, 3, 0, 0, 0, 0, 0, 0>>] }

\* the addresses filter_by_address is asked for: 0x2001, 0x4001 and 0x5001 (absent)
FilterAddresses == {8193, 16385, 20481}

\* the little-endian bytes of n < 2^31 in a field of `width` bytes
PackLittleEndian(n, width) ==
    [i \in 1 .. width |-> IF i > 4 THEN 0 ELSE (n \div (256 ^ (i - 1))) % 256]

\* the value of up to four little-endian bytes
UnpackLittleEndian(bytes) ==
    LET b(i) == IF i <= Len(bytes) THEN bytes[i] ELSE 0
    IN  b(1) + 256 * b(2) + 65536 * b(3) + 16777216 * b(4)

\* struct.pack("<d", timestamp): eight bytes.  A timestamp is an opaque value
\* below 2^31 here, laid out in the low four bytes.
PackDouble(ts) == PackLittleEndian(ts, 8)

\* struct.pack("<I", n)
PackUInt32(n) == PackLittleEndian(n, 4)

\* struct.unpack("<dI", header) on a 12-byte header
UnpackHeader(header) ==
    [timestamp |-> UnpackLittleEndian(SubSeq(header, 1, 4)),
     length |-> UnpackLittleEndian(SubSeq(header, 9, 12))]

\* a writer that puts the length field before the timestamp
WritePacketLengthFirst(file, ts, bytes) ==
    file \o PackUInt32(Len(bytes)) \o PackDouble(ts) \o bytes

\* BusCapture._write_packet with the file open: the file after the write
_write_packet(file, ts, bytes) == file \o PackDouble(ts) \o PackUInt32(Len(bytes)) \o bytes

RECURSIVE ReadRecordsKeepShort(_, _, _)
\* a reader that keeps the bytes of a record cut short by the end of the file
ReadRecordsKeepShort(file, pos, acc) ==
    LET header == SubSeq(file, pos + 1, Min(pos + 12, Len(file)))
    IN  IF Len(header) < 12 THEN acc
        ELSE
            LET fields == UnpackHeader(header)
                bytes == SubSeq(file, pos + 13, Min(pos + 12 + fields.length, Len(file)))
                read == Append(acc, from_bytes(bytes, fields.timestamp))
            IN  IF Len(bytes) < fields.length \/ read = acc THEN read
                ELSE ReadRecordsKeepShort(file, pos + 12 + fields.length, read)

RECURSIVE ReadRecords(_, _, _)
\* the loop of CaptureAnalyzer.load_capture from file offset pos: f.read(n)
\* returns the bytes left when fewer than n remain.  (An append always changes
\* the list; the comparison has the list computed record by record.)
ReadRecords(file, pos, acc) ==
    LET header == SubSeq(file, pos + 1, Min(pos + 12, Len(file)))
    IN  IF Len(header) < 12 THEN acc
        ELSE
            LET fields == UnpackHeader(header)
                bytes == SubSeq(file, pos + 13, Min(pos + 12 + fields.length, Len(file)))
                read == Append(acc, from_bytes(bytes, fields.timestamp))
            IN  IF Len(bytes) < fields.length \/ read = acc THEN acc
                ELSE ReadRecords(file, pos + 12 + fields.length, read)

\* CaptureAnalyzer.load_capture: self.packets after the call
load_capture(self_packets, file) == ReadRecords(file, 0, self_packets)

(***************************************************************************)
(* tools/replay.py: class PacketReplayer                                   *)
(*                                                                         *)
(* The replayer keeps each record as the tuple (timestamp, data): a pair   *)
(* <<timestamp, data>> here.                                               *)
(***************************************************************************)

RECURSIVE ReplayReadRecords(_, _, _)
\* the loop of PacketReplayer.load_capture from file offset pos
ReplayReadRecords(file, pos, acc) ==
    LET header == SubSeq(file, pos + 1, Min(pos + 12, Len(file)))
    IN  IF Len(header) < 12 THEN acc
        ELSE
            LET fields == UnpackHeader(header)
                bytes == SubSeq(file, pos + 13, Min(pos + 12 + fields.length, Len(file)))
                read == Append(acc, <<fields.timestamp, bytes>>)
            IN  IF Len(bytes) < fields.length \/ read = acc THEN acc
                ELSE ReplayReadRecords(file, pos + 12 + fields.length, read)

\* PacketReplayer.load_capture: self.packets after the call, cleared first
replay_load_capture(file) == ReplayReadRecords(file, 0, <<>>)

(***************************************************************************)
(* tools/analyze.py: class CaptureAnalyzer                                 *)
(*                                                                         *)
(* A Counter (and a dict) keeps its keys in the order they were first      *)
(* inserted, and most_common() orders equal counts by that order: it is a  *)
(* sequence of [key, count] records here.  A packet held in a list is      *)
(* referred to by its index in self.packets.                               *)
(***************************************************************************)

CounterHas(counter, key) == \E i \in 1 .. Len(counter) : counter[i].key = key

\* counter[key], 0 for a missing key
CounterGet(counter, key) ==
    IF CounterHas(counter, key)
    THEN counter[CHOOSE i \in 1 .. Len(counter) : counter[i].key = key].count
    ELSE 0

\* counter[key] += 1
CounterIncrement(counter, key) ==
    IF CounterHas(counter, key)
    THEN [counter EXCEPT
            ![CHOOSE i \in 1 .. Len(counter) : counter[i].key = key].count = @ + 1]
    ELSE Append(counter, [key |-> key, count |-> 1])

\* sorted(items, key=count, reverse=True): descending count, equal counts in
\* their original order (Python's sort is stable, also with reverse=True)
SortedByCountDesc(items) ==
    LET Before(j, i) ==
            \/ items[j].count > items[i].count
            \/ items[j].count = items[i].count /\ j < i
        Rank(i) == Cardinality({j \in 1 .. Len(items) : Before(j, i)}) + 1
    IN  [r \in 1 .. Len(items) |-> items[CHOOSE i \in 1 .. Len(items) : Rank(i) = r]]

\* Counter.most_common()
most_common(counter) == SortedByCountDesc(counter)

\* most_common() with the limit left out: every entry, ranked
MostCommonUnlimited(counter, n) == SortedByCountDesc(counter)

\* Counter.most_common(n)
most_common_n(counter, n) == SubSeq(SortedByCountDesc(counter), 1, Min(n, Len(counter)))

\* a grouping by the two endpoints whatever the direction: the key is the pair
\* with the smaller address first
ConversationAppendUnordered(groups, conv_key, ref) ==
    LET pair == IF conv_key[1] <= conv_key[2] THEN conv_key
                ELSE <<conv_key[2], conv_key[1]>>
    IN  IF \E i \in 1 .. Len(groups) : groups[i].key = pair
        THEN [groups EXCEPT
                ![CHOOSE i \in 1 .. Len(groups) : groups[i].key = pair].packets =
                    Append(@, ref)]
        ELSE Append(groups, [key |-> pair, packets |-> <<ref>>])

\* self.conversations[conv_key].append(packet)
ConversationAppend(groups, conv_key, ref) ==
    IF \E i \in 1 .. Len(groups) : groups[i].key = conv_key
    THEN [groups EXCEPT
            ![CHOOSE i \in 1 .. Len(groups) : groups[i].key = conv_key].packets =
                Append(@, ref)]
    ELSE Append(groups, [key |-> conv_key, packets |-> <<ref>>])

RECURSIVE AnalyzeLoopSelfOnce(_, _, _)
\* a loop that counts the addresses of a packet as a set: a packet a device
\* sends to itself adds one to its address, not two
AnalyzeLoopSelfOnce(pkts, i, acc) ==
    IF i > Len(pkts) THEN acc
    ELSE IF Truthy(pkts[i].parse_error) THEN AnalyzeLoopSelfOnce(pkts, i + 1, acc)
    ELSE LET counted ==
            [addresses |->
                IF pkts[i].src_addr = pkts[i].dest_addr
                THEN CounterIncrement(acc.addresses, pkts[i].src_addr)
                ELSE CounterIncrement(CounterIncrement(acc.addresses, pkts[i].src_addr),
                                      pkts[i].dest_addr),
             message_types |-> CounterIncrement(acc.message_types, pkts[i].msg_type),
             conversations |->
                ConversationAppend(acc.conversations,
                                   <<pkts[i].src_addr, pkts[i].dest_addr>>, i)]
         IN  IF counted = acc THEN acc ELSE AnalyzeLoopSelfOnce(pkts, i + 1, counted)

RECURSIVE AnalyzeLoop(_, _, _)
\* the for loop of CaptureAnalyzer.analyze from packet i on.  (A packet that is
\* counted always changes the tables; the comparison has them computed packet
\* by packet instead of all at the end of the list.)
AnalyzeLoop(pkts, i, acc) ==
    IF i > Len(pkts) THEN acc
    ELSE IF Truthy(pkts[i].parse_error) THEN AnalyzeLoop(pkts, i + 1, acc)
    ELSE LET counted ==
            [addresses |->
                CounterIncrement(CounterIncrement(acc.addresses, pkts[i].src_addr),
                                 pkts[i].dest_addr),
             message_types |-> CounterIncrement(acc.message_types, pkts[i].msg_type),
             conversations |->
                ConversationAppend(acc.conversations,
                                   <<pkts[i].src_addr, pkts[i].dest_addr>>, i)]
         IN  IF counted = acc THEN acc ELSE AnalyzeLoop(pkts, i + 1, counted)

\* an analysis that leaves out the three clear() calls and counts on top of
\* the tables of the run before
AnalyzeWithoutClear(pkts) ==
    AnalyzeLoop(pkts, 1, [addresses |-> addresses, message_types |-> message_types,
                          conversations |-> conversations])

\* CaptureAnalyzer.analyze: the three tables are cleared, then filled
analyze(pkts) ==
    AnalyzeLoop(pkts, 1, [addresses |-> <<>>, message_types |-> <<>>, conversations |-> <<>>])

\* the number of conversations print_summary shows
ConversationTableLimit == 20

\* CaptureAnalyzer.print_summary: the rows of its three tables
print_summary(self_addresses, self_message_types, self_conversations) ==
    LET sized == [i \in 1 .. Len(self_conversations) |->
                    [key |-> self_conversations[i].key,
                     count |-> Len(self_conversations[i].packets)]]
        ranked == SortedByCountDesc(sized)
    IN  [addresses |-> most_common(self_addresses),
         message_types |-> most_common(self_message_types),
         conversations |-> SubSeq(ranked, 1, Min(ConversationTableLimit, Len(ranked)))]

\* the length of the payload prefixes find_patterns counts
PrefixLength == 4

\* the number of prefixes find_patterns takes from the counter
PatternTableLimit == 20

RECURSIVE PrefixLoop(_, _, _)
\* the first for loop of CaptureAnalyzer.find_patterns from packet i on (with
\* the counter computed packet by packet, as in AnalyzeLoop)
PrefixLoop(pkts, i, prefixes) ==
    IF i > Len(pkts) THEN prefixes
    ELSE IF Truthy(pkts[i].payload) /\ Len(pkts[i].payload) >= PrefixLength
    THEN LET counted ==
                CounterIncrement(prefixes, Slice(pkts[i].payload, 0, PrefixLength))
         IN  IF counted = prefixes THEN prefixes ELSE PrefixLoop(pkts, i + 1, counted)
    ELSE PrefixLoop(pkts, i + 1, prefixes)

\* a pattern table without the test against min_occurrences
FindPatternsUnfiltered(pkts, min_occurrences) ==
    most_common_n(PrefixLoop(pkts, 1, <<>>), PatternTableLimit)

\* CaptureAnalyzer.find_patterns: the rows of the pattern table, [key, count]
\* with key the prefix bytes
find_patterns(pkts, min_occurrences) ==
    SelectSeq(most_common_n(PrefixLoop(pkts, 1, <<>>), PatternTableLimit),
              LAMBDA row : row.count >= min_occurrences)

\* a filter on the addresses alone, errored packets included
FilterByAddressErrored(pkts, addr) ==
    SelectSeq([i \in 1 .. Len(pkts) |-> i],
              LAMBDA i : pkts[i].src_addr = addr \/ pkts[i].dest_addr = addr)

\* CaptureAnalyzer.filter_by_address: the packets returned, in list order
filter_by_address(pkts, addr) ==
    SelectSeq([i \in 1 .. Len(pkts) |-> i],
              LAMBDA i : /\ ~Truthy(pkts[i].parse_error)
                         /\ (pkts[i].src_addr = addr \/ pkts[i].dest_addr = addr))

(***************************************************************************)
(* The analyzer as a state machine: a capture file is written, then an     *)
(* analyzer loads it and is queried.                                       *)
(***************************************************************************)

NoAnalyzerCall == [op |-> "none", arg |-> 0]

AnalyzerInit ==
    /\ capture_file = <<>>
    /\ packets = <<>>
    /\ addresses = <<>>
    /\ message_types = <<>>
    /\ conversations = <<>>
    /\ analyzer_call = NoAnalyzerCall
    /\ analyzer_out = <<>>

\* the capture tool appends one record to the file; the analyzer is not yet started
WriteCapture ==
    /\ analyzer_call = NoAnalyzerCall
    /\ Len(load_capture(<<>>, capture_file)) < MaxPackets
    /\ \E rec \in CaptureRecords :
        capture_file' = _write_packet(capture_file, rec.timestamp, rec.data)
    /\ UNCHANGED <<packets, addresses, message_types, conversations,
                   analyzer_call, analyzer_out>>
    /\ UNCHANGED <<codecVars, replayVars, captureVars, proberVars, signalVars>>

LoadCapture ==
    /\ Len(load_capture(packets, capture_file)) <= MaxPackets
    /\ packets' = load_capture(packets, capture_file)
    /\ analyzer_call' = [op |-> "load_capture", arg |-> 0]
    /\ analyzer_out' = <<>>
    /\ UNCHANGED <<capture_file, addresses, message_types, conversations>>
    /\ UNCHANGED <<codecVars, replayVars, captureVars, proberVars, signalVars>>

Analyze ==
    /\ addresses' = analyze(packets).addresses
    /\ message_types' = analyze(packets).message_types
    /\ conversations' = analyze(packets).conversations
    /\ analyzer_call' = [op |-> "analyze", arg |-> 0]
    /\ analyzer_out' = <<>>
    /\ UNCHANGED <<capture_file, packets>>
    /\ UNCHANGED <<codecVars, replayVars, captureVars, proberVars, signalVars>>

PrintSummary ==
    /\ analyzer_call' = [op |-> "print_summary", arg |-> 0]
    /\ analyzer_out' = print_summary(addresses, message_types, conversations)
    /\ UNCHANGED <<capture_file, packets, addresses, message_types, conversations>>
    /\ UNCHANGED <<codecVars, replayVars, captureVars, proberVars, signalVars>>

FindPatterns ==
    /\ \E min_occurrences \in 1 .. MaxMinOccurrences :
        /\ analyzer_call' = [op |-> "find_patterns", arg |-> min_occurrences]
        /\ analyzer_out' = find_patterns(packets, min_occurrences)
    /\ UNCHANGED <<capture_file, packets, addresses, message_types, conversations>>
    /\ UNCHANGED <<codecVars, replayVars, captureVars, proberVars, signalVars>>

FilterByAddress ==
    /\ \E addr \in FilterAddresses :
        /\ analyzer_call' = [op |-> "filter_by_address", arg |-> addr]
        /\ analyzer_out' = filter_by_address(packets, addr)
    /\ UNCHANGED <<capture_file, packets, addresses, message_types, conversations>>
    /\ UNCHANGED <<codecVars, replayVars, captureVars, proberVars, signalVars>>

NextAnalyzer ==
    \/ WriteCapture
    \/ LoadCapture
    \/ Analyze
    \/ PrintSummary
    \/ FindPatterns
    \/ FilterByAddress

(***************************************************************************)
(* Capture files on disk: the capture tool writes records, the file may be *)
(* cut short, and both loaders read it.                                    *)
(***************************************************************************)

\* the most records written to a file that is then cut at every length
MaxWritten == 2

NoReplayCall == [op |-> "none", arg |-> 0]

\* the options of a run that has not started: no --packet, --start 0, no
\* --end, no --dry-run
NoReplayOptions ==
    [has_packet |-> FALSE, packet |-> 0, start |-> 0, has_end |-> FALSE,
     end |-> 0, dry_run |-> FALSE]

ReplayInit ==
    /\ written = <<>>
    /\ replay_packets = <<>>
    /\ replay_call = NoReplayCall
    /\ replay_options = NoReplayOptions
    /\ confirmation = "unasked"
    /\ replay_conn = "none"
    /\ bus_written = <<>>
    /\ replay_exit = [kind |-> "none", value |-> <<>>]
    /\ replay_pc = "new"

\* the length of the file that holds exactly these records
RECURSIVE EncodedLength(_)
EncodedLength(records) ==
    IF records = <<>> THEN 0
    ELSE 12 + Len(records[1][2]) + EncodedLength(Tail(records))

\* no loader has run and the file holds every byte that was written
FileIntact ==
    /\ analyzer_call = NoAnalyzerCall
    /\ replay_call = NoReplayCall
    /\ Len(capture_file) = EncodedLength(written)

\* the capture tool appends one record to the file
WriteRecord ==
    /\ FileIntact
    /\ Len(written) < MaxWritten
    /\ \E rec \in CaptureRecords :
        /\ capture_file' = _write_packet(capture_file, rec.timestamp, rec.data)
        /\ written' = Append(written, <<rec.timestamp, rec.data>>)
    /\ UNCHANGED <<packets, addresses, message_types, conversations,
                   analyzer_call, analyzer_out, replay_packets, replay_call,
                   replayMainVars>>
    /\ UNCHANGED <<codecVars, captureVars, proberVars, signalVars>>

\* the file loses its tail: a capture that was cut off, or a partial copy
TruncateFile ==
    /\ FileIntact
    /\ \E n \in 0 .. Len(capture_file) - 1 :
        capture_file' = SubSeq(capture_file, 1, n)
    /\ UNCHANGED <<packets, addresses, message_types, conversations,
                   analyzer_call, analyzer_out, replayVars>>
    /\ UNCHANGED <<codecVars, captureVars, proberVars, signalVars>>

ReplayLoadCapture ==
    /\ replay_packets' = replay_load_capture(capture_file)
    /\ replay_call' = [op |-> "load_capture", arg |-> 0]
    /\ UNCHANGED <<written, replayMainVars>>
    /\ UNCHANGED <<analyzerVars, codecVars, captureVars, proberVars, signalVars>>

NextCaptureFile ==
    \/ WriteRecord
    \/ TruncateFile
    \/ LoadCapture
    \/ ReplayLoadCapture

(***************************************************************************)
(* replay.py: the replay tool                                              *)
(***************************************************************************)

\* a replay that sends whatever part of the range the capture holds
ReplaySequenceUnchecked(pkts, connected, start, end) ==
    IF start < 0 \/ start >= Len(pkts) THEN Raise("IndexError")
    ELSE LET last == IF end < Len(pkts) THEN end ELSE Len(pkts)
         IN  Return(IF connected
                    THEN [k \in 1 .. (IF last > start THEN last - start ELSE 0) |->
                            pkts[start + k][2]]
                    ELSE <<>>)

\* PacketReplayer.replay_single(index): what it passes to serial_conn.write
replay_single(pkts, connected, index) ==
    IF ~(0 <= index /\ index < Len(pkts)) THEN Return(<<>>)
    ELSE Return(IF connected THEN <<pkts[index + 1][2]>> ELSE <<>>)

\* PacketReplayer.replay_sequence(start, end): what it passes to
\* serial_conn.write, packet by packet; self.packets[start] raises IndexError
\* when start is not below the number of packets.  The sleeps between the
\* packets are left out.
replay_sequence(pkts, connected, start, end) ==
    IF start < 0 \/ end > Len(pkts) THEN Return(<<>>)
    ELSE IF start >= Len(pkts) THEN Raise("IndexError")
    ELSE Return(IF connected
                THEN [k \in 1 .. (IF end > start THEN end - start ELSE 0) |->
                        pkts[start + k][2]]
                ELSE <<>>)

\* replayer.packets[i] succeeds: i is an index of the list, counted from the
\* front or, when negative, from the back
ListIndexValid(pkts, i) == 0 - Len(pkts) <= i /\ i < Len(pkts)

\* end_idx = end if end is not None else len(replayer.packets)
EndIndex(options, pkts) == IF options.has_end THEN options.end ELSE Len(pkts)

\* the try block of main with --dry-run: packets are only looked up and
\* printed, at most ten of a range
DryRun(options, pkts) ==
    IF options.has_packet
    THEN IF ListIndexValid(pkts, options.packet)
         THEN Return(<<>>) ELSE Raise("IndexError")
    ELSE LET end_idx == EndIndex(options, pkts)
             stop == IF end_idx < options.start + 10 THEN end_idx
                     ELSE options.start + 10
         IN  IF \A i \in options.start .. stop - 1 : ListIndexValid(pkts, i)
             THEN Return(<<>>) ELSE Raise("IndexError")

\* the try block of main without --dry-run
LiveRun(options, pkts, connected) ==
    IF options.has_packet
    THEN replay_single(pkts, connected, options.packet)
    ELSE replay_sequence(pkts, connected, options.start, EndIndex(options, pkts))

\* the indices given as --packet, --start and --end
ReplayIndexes == -1 .. MaxWritten + 1

\* the command lines of the replay tool: --packet, or --start with or
\* without --end, each with or without --dry-run
ReplayOptions ==
    { [has_packet |-> TRUE, packet |-> p, start |-> 0, has_end |-> FALSE,
       end |-> 0, dry_run |-> d] : p \in ReplayIndexes, d \in BOOLEAN }
    \cup { [has_packet |-> FALSE, packet |-> 0, start |-> s, has_end |-> FALSE,
            end |-> 0, dry_run |-> d] : s \in ReplayIndexes, d \in BOOLEAN }
    \cup { [has_packet |-> FALSE, packet |-> 0, start |-> s, has_end |-> TRUE,
            end |-> e, dry_run |-> d] :
            s \in ReplayIndexes, e \in ReplayIndexes, d \in BOOLEAN }

\* main up to the confirmation: a new PacketReplayer loads the capture file
ReplayMain ==
    /\ replay_pc = "new"
    /\ replay_call = NoReplayCall
    /\ \E options \in ReplayOptions :
        /\ replay_options' = options
        /\ replay_pc' = IF options.dry_run THEN "run" ELSE "confirm"
    /\ replay_packets' = replay_load_capture(capture_file)
    /\ replay_call' = [op |-> "load_capture", arg |-> 0]
    /\ UNCHANGED <<written, confirmation, replay_conn, bus_written, replay_exit>>
    /\ UNCHANGED <<analyzerVars, codecVars, captureVars, proberVars, signalVars>>

\* main: Confirm.ask; on "no" main returns, on "yes" replayer.connect() opens
\* the port or raises SerialException
ReplayConfirm ==
    /\ replay_pc = "confirm"
    /\ \E answer \in BOOLEAN, opened \in BOOLEAN :
        IF ~answer
        THEN /\ confirmation' = "no"
             /\ replay_exit' = Return(<<>>)
             /\ replay_pc' = "ended"
             /\ UNCHANGED replay_conn
        ELSE /\ confirmation' = "yes"
             /\ IF opened
                THEN /\ replay_conn' = "open"
                     /\ replay_pc' = "run"
                     /\ UNCHANGED replay_exit
                ELSE /\ replay_exit' = Raise("SerialException")
                     /\ replay_pc' = "ended"
                     /\ UNCHANGED replay_conn
    /\ UNCHANGED <<written, replay_packets, replay_call, replay_options, bus_written>>
    /\ UNCHANGED <<analyzerVars, codecVars, captureVars, proberVars, signalVars>>

\* main: the try block and, in its finally clause, replayer.disconnect()
ReplayRun ==
    /\ replay_pc = "run"
    /\ LET outcome == IF replay_options.dry_run
                      THEN DryRun(replay_options, replay_packets)
                      ELSE LiveRun(replay_options, replay_packets,
                                   replay_conn = "open")
       IN  /\ bus_written' = IF outcome.kind = "return"
                             THEN bus_written \o outcome.value ELSE bus_written
           /\ replay_exit' = IF outcome.kind = "return" THEN Return(<<>>) ELSE outcome
    /\ replay_conn' = IF replay_conn = "open" THEN "closed" ELSE replay_conn
    /\ replay_pc' = "ended"
    /\ UNCHANGED <<written, replay_packets, replay_call, replay_options, confirmation>>
    /\ UNCHANGED <<analyzerVars, codecVars, captureVars, proberVars, signalVars>>

NextReplay ==
    \/ WriteRecord
    \/ ReplayMain
    \/ ReplayConfirm
    \/ ReplayRun

(***************************************************************************)
(* A long capture: a series of frames between many pairs of addresses,     *)
(* loaded once by a new analyzer, as main does.                            *)
(***************************************************************************)

\* the most records in a long capture
MaxSeries == 22

\* the most times in a row that one frame of a long capture is repeated
MaxRepeats == 1

\* the k-th distinct frame of the series: from address k to its neighbour
\* (k + 1 for odd k, k - 1 for even k), with a payload that starts with k
SeriesFrame(k) ==
    <<0, IF k % 2 = 1 THEN k + 1 ELSE k - 1, 0, k, 1 + (k % 3), k, 4, 0, 0, 0,
      k, 86, 65, 67, 0, 0>>

\* the records of a long capture that repeat the one before them
SeriesRepeats ==
    Cardinality({i \in 2 .. Len(written) : written[i][2] = written[i - 1][2]})

\* one frame of a long capture is repeated, up to MaxRepeats times in a row
RepeatAllowed ==
    /\ written # <<>>
    /\ SeriesRepeats < MaxRepeats
    /\ SeriesRepeats > 0 => written[Len(written)][2] = written[Len(written) - 1][2]

\* the capture tool appends the next frame of the series, or the last one again
WriteSeries ==
    /\ analyzer_call = NoAnalyzerCall
    /\ Len(written) < MaxSeries
    /\ \E repeat \in BOOLEAN :
        /\ repeat => RepeatAllowed
        /\ LET frame == IF repeat THEN written[Len(written)][2]
                        ELSE SeriesFrame(Len(written) - SeriesRepeats + 1)
               ts == Len(written) + 1
           IN  /\ capture_file' = _write_packet(capture_file, ts, frame)
               /\ written' = Append(written, <<ts, frame>>)
    /\ UNCHANGED <<packets, addresses, message_types, conversations,
                   analyzer_call, analyzer_out, replay_packets, replay_call,
                   replayMainVars>>
    /\ UNCHANGED <<codecVars, captureVars, proberVars, signalVars>>

\* main: a new CaptureAnalyzer loads the capture file
LoadNewAnalyzer ==
    /\ analyzer_call = NoAnalyzerCall
    /\ packets' = load_capture(<<>>, capture_file)
    /\ analyzer_call' = [op |-> "load_capture", arg |-> 0]
    /\ analyzer_out' = <<>>
    /\ UNCHANGED <<capture_file, addresses, message_types, conversations>>
    /\ UNCHANGED <<codecVars, replayVars, captureVars, proberVars, signalVars>>

NextSeries ==
    \/ WriteSeries
    \/ LoadNewAnalyzer
    \/ Analyze
    \/ PrintSummary
    \/ FindPatterns

(***************************************************************************)
(* tools/capture.py: class BusCapture, the live capture loop               *)
(*                                                                         *)
(* Time is in milliseconds.  One step of the loop is one action: the poll  *)
(* of the port, the frame it may write, and the sleep that ends it.        *)
(***************************************************************************)

\* the latest time at which the loop is still observed
MaxClock == 140

\* the most bytes the bus delivers during a capture
MaxBusBytes == 3

\* the byte values seen on the bus
BusBytes == {85, 170}

\* time.sleep(0.01) returns after 10 ms, or later on a busy machine
SleepSteps == {10, 30}

\* packet_timeout = 0.05
packet_timeout == 50

CaptureInit ==
    /\ running = FALSE
    /\ packets_captured = 0
    /\ bytes_captured = 0
    /\ serial_conn = <<>>
    /\ buffer = <<>>
    /\ last_data_time = 0
    /\ clock = 0
    /\ capture_pc = "new"
    /\ port_read = <<>>

\* a gap that reaches the timeout also counts as a frame boundary
QuietForInclusive(now, last) == (now - last) >= packet_timeout

\* (time.time() - last_data_time) > packet_timeout
QuietFor(now, last) == (now - last) > packet_timeout

\* BusCapture.start up to the loop: the port opens, or SerialException ends
\* the process
Start ==
    /\ capture_pc = "new"
    /\ running' = TRUE
    /\ packets_captured' = 0
    /\ bytes_captured' = 0
    /\ \E opened \in BOOLEAN :
        IF opened
        THEN /\ capture_file' = <<>>
             /\ buffer' = <<>>
             /\ last_data_time' = clock
             /\ capture_pc' = "loop"
        ELSE /\ capture_pc' = "exited"
             /\ UNCHANGED <<capture_file, buffer, last_data_time>>
    /\ UNCHANGED <<serial_conn, clock, port_read>>
    /\ UNCHANGED <<packets, addresses, message_types, conversations,
                   analyzer_call, analyzer_out>>
    /\ UNCHANGED <<codecVars, replayVars, proberVars, signalVars>>

\* the bus delivers one byte to the open port
Arrive ==
    /\ capture_pc = "loop"
    /\ bytes_captured + Len(buffer) + Len(serial_conn) < MaxBusBytes
    /\ \E byte \in BusBytes : serial_conn' = Append(serial_conn, byte)
    /\ UNCHANGED <<running, buffer, last_data_time, clock, packets_captured,
                   bytes_captured, capture_pc, port_read>>
    /\ UNCHANGED <<analyzerVars, codecVars, replayVars, proberVars, signalVars>>

\* a pass of the loop whose read replaces the buffer
PollOverwriting ==
    /\ capture_pc = "loop"
    /\ running
    /\ IF serial_conn # <<>>
       THEN /\ buffer' = serial_conn
            /\ port_read' = port_read \o serial_conn
            /\ serial_conn' = <<>>
            /\ last_data_time' = clock
            /\ UNCHANGED <<capture_file, packets_captured, bytes_captured>>
       ELSE IF buffer # <<>> /\ QuietFor(clock, last_data_time)
       THEN /\ capture_file' = _write_packet(capture_file, clock, buffer)
            /\ packets_captured' = packets_captured + 1
            /\ bytes_captured' = bytes_captured + Len(buffer)
            /\ buffer' = <<>>
            /\ UNCHANGED <<serial_conn, last_data_time, port_read>>
       ELSE UNCHANGED <<capture_file, packets_captured, bytes_captured, buffer,
                        serial_conn, last_data_time, port_read>>
    /\ \E step \in SleepSteps :
        /\ clock + step <= MaxClock
        /\ clock' = clock + step
    /\ UNCHANGED <<running, capture_pc>>
    /\ UNCHANGED <<packets, addresses, message_types, conversations,
                   analyzer_call, analyzer_out>>
    /\ UNCHANGED <<codecVars, replayVars, proberVars, signalVars>>

\* one pass of the loop body of BusCapture.start
Poll ==
    /\ capture_pc = "loop"
    /\ running
    /\ IF serial_conn # <<>>
       THEN /\ buffer' = buffer \o serial_conn
            /\ port_read' = port_read \o serial_conn
            /\ serial_conn' = <<>>
            /\ last_data_time' = clock
            /\ UNCHANGED <<capture_file, packets_captured, bytes_captured>>
       ELSE IF buffer # <<>> /\ QuietFor(clock, last_data_time)
       THEN /\ capture_file' = _write_packet(capture_file, clock, buffer)
            /\ packets_captured' = packets_captured + 1
            /\ bytes_captured' = bytes_captured + Len(buffer)
            /\ buffer' = <<>>
            /\ UNCHANGED <<serial_conn, last_data_time, port_read>>
       ELSE UNCHANGED <<capture_file, packets_captured, bytes_captured, buffer,
                        serial_conn, last_data_time, port_read>>
    /\ \E step \in SleepSteps :
        /\ clock + step <= MaxClock
        /\ clock' = clock + step
    /\ UNCHANGED <<running, capture_pc>>
    /\ UNCHANGED <<packets, addresses, message_types, conversations,
                   analyzer_call, analyzer_out>>
    /\ UNCHANGED <<codecVars, replayVars, proberVars, signalVars>>

\* main: signal_handler sets capture.running = False
SignalHandler ==
    /\ capture_pc = "loop"
    /\ running
    /\ running' = FALSE
    /\ UNCHANGED <<serial_conn, buffer, last_data_time, clock, packets_captured,
                   bytes_captured, capture_pc, port_read>>
    /\ UNCHANGED <<analyzerVars, codecVars, replayVars, proberVars, signalVars>>

\* a stop that first writes what is buffered as a last frame
StopFlushing ==
    /\ capture_pc = "loop"
    /\ running' = FALSE
    /\ serial_conn' = <<>>
    /\ IF buffer # <<>>
       THEN /\ capture_file' = _write_packet(capture_file, clock, buffer)
            /\ packets_captured' = packets_captured + 1
            /\ bytes_captured' = bytes_captured + Len(buffer)
       ELSE UNCHANGED <<capture_file, packets_captured, bytes_captured>>
    /\ buffer' = <<>>
    /\ capture_pc' = "stopped"
    /\ UNCHANGED <<last_data_time, clock, port_read>>
    /\ UNCHANGED <<packets, addresses, message_types, conversations,
                   analyzer_call, analyzer_out>>
    /\ UNCHANGED <<codecVars, replayVars, proberVars, signalVars>>

\* the loop ends, by its condition or by KeyboardInterrupt, and the finally
\* clause calls BusCapture.stop: the port and the file are closed and the
\* local buffer is gone
Stop ==
    /\ capture_pc = "loop"
    /\ running' = FALSE
    /\ serial_conn' = <<>>
    /\ buffer' = <<>>
    /\ capture_pc' = "stopped"
    /\ UNCHANGED <<last_data_time, clock, packets_captured, bytes_captured,
                   port_read>>
    /\ UNCHANGED <<analyzerVars, codecVars, replayVars, proberVars, signalVars>>

NextCapture ==
    \/ Start
    \/ Arrive
    \/ Poll
    \/ SignalHandler
    \/ Stop

(***************************************************************************)
(* baudrate_detect.py: analyze_data_quality                                *)
(***************************************************************************)

\* the ratios are floats in the source; here they are exact fractions
\* [num, den], and a comparison with a literal is made on cross products.  For
\* samples of the lengths modelled the nearest float of a fraction lies on
\* the same side of the nearest float of 0.3, 0.05 and 0.5 as the fraction
\* does of 3/10, 1/20 and 1/2.
Ratio(num, den) == [num |-> num, den |-> den]

\* ratio > num / den
RatioAbove(ratio, num, den) == ratio.num * den > num * ratio.den

\* ratio < num / den
RatioBelow(ratio, num, den) == ratio.num * den < num * ratio.den

\* sum(1 for b in data if 32 <= b < 127)
printable(bytes) ==
    Cardinality({i \in 1 .. Len(bytes) : 32 <= bytes[i] /\ bytes[i] < 127})

\* data.count(0x00)
nulls(bytes) == Cardinality({i \in 1 .. Len(bytes) : bytes[i] = 0})

\* data.count(0xFF)
ones(bytes) == Cardinality({i \in 1 .. Len(bytes) : bytes[i] = 255})

\* for pattern_len in [10, 12, 14, 16]
PatternLengths == <<10, 12, 14, 16>>

\* data[i : i + pattern_len] == data[i + pattern_len : i + pattern_len * 2],
\* i counted from 0 as in the source
RunRepeatsAt(bytes, pattern_len, i) ==
    SubSeq(bytes, i + 1, i + pattern_len) =
        SubSeq(bytes, i + pattern_len + 1, i + pattern_len * 2)

\* the two nested loops: for i in range(len(data) - pattern_len * 2)
has_patterns(bytes) ==
    \E p \in 1 .. Len(PatternLengths) :
        \E i \in 0 .. Len(bytes) - PatternLengths[p] * 2 - 1 :
            RunRepeatsAt(bytes, PatternLengths[p], i)

\* max(0, min(100, score))
Clamp(score) ==
    LET low == IF score < 100 THEN score ELSE 100
    IN  IF low > 0 THEN low ELSE 0

\* a score whose noise penalty is 20
RawScoreMildPenalty(noise_ratio, printable_ratio, patterns) ==
    50 - (IF RatioAbove(noise_ratio, 3, 10) THEN 20 ELSE 0)
       + (IF RatioAbove(printable_ratio, 1, 20) /\ RatioBelow(printable_ratio, 1, 2)
          THEN 20 ELSE 0)
       + (IF patterns THEN 30 ELSE 0)

\* score = 50, then the three adjustments
RawScore(noise_ratio, printable_ratio, patterns) ==
    50 - (IF RatioAbove(noise_ratio, 3, 10) THEN 30 ELSE 0)
       + (IF RatioAbove(printable_ratio, 1, 20) /\ RatioBelow(printable_ratio, 1, 2)
          THEN 20 ELSE 0)
       + (IF patterns THEN 30 ELSE 0)

\* the list reason, before ", ".join; the percentages inside the texts are
\* left out
ReasonParts(noise_ratio, printable_ratio, patterns) ==
    (IF RatioAbove(noise_ratio, 3, 10) THEN <<"High noise">> ELSE <<>>)
    \o (IF patterns THEN <<"Repeating patterns found">> ELSE <<>>)
    \o (IF RatioAbove(printable_ratio, 1, 20) /\ RatioBelow(printable_ratio, 1, 2)
        THEN <<"Some ASCII">> ELSE <<>>)

\* analyze_data_quality(data)
analyze_data_quality(bytes) ==
    IF bytes = <<>>
    THEN [score |-> 0, reason |-> <<"No data received">>]
    ELSE LET printable_ratio == Ratio(printable(bytes), Len(bytes))
             noise_ratio == Ratio(nulls(bytes) + ones(bytes), Len(bytes))
             patterns == has_patterns(bytes)
             parts == ReasonParts(noise_ratio, printable_ratio, patterns)
         IN  [score |-> Clamp(RawScore(noise_ratio, printable_ratio, patterns)),
              reason |-> IF parts # <<>> THEN parts ELSE <<"Inconclusive">>,
              printable_ratio |-> printable_ratio,
              noise_ratio |-> noise_ratio,
              has_patterns |-> patterns]

\* the most bytes before and after a repeated run in a sample
MaxPad == 2

\* n bytes of one value
Repeat(byte, n) == [i \in 1 .. n |-> byte]

\* a sample with the given numbers of 0x00/0xFF bytes, of printable bytes and
\* of other bytes
CountSample(noise, ascii, other) ==
    Repeat(0, (noise + 1) \div 2) \o Repeat(255, noise \div 2)
        \o Repeat(65, ascii) \o Repeat(128, other)

\* the lengths of the samples made by count
CountLengths == {1, 2, 10, 20, 22}

CountSamples ==
    UNION { UNION { { CountSample(noise, ascii, n - noise - ascii) :
                        ascii \in 0 .. n - noise } :
                    noise \in 0 .. n } :
            n \in CountLengths }

\* the kinds of run: control bytes, letters, and runs that begin with 0x00
\* bytes or with letters
UnitKinds == {"control", "letters", "mixed", "noisy", "noisymixed"}

\* byte j of a run of the given kind; the bytes of a run differ from place to
\* place except for the leading 0x00 bytes
UnitByte(kind, j) ==
    CASE kind = "control" -> j
      [] kind = "letters" -> 64 + j
      [] kind = "mixed" -> IF j <= 3 THEN 64 + j ELSE j
      [] kind = "noisy" -> IF j <= 5 THEN 0 ELSE j
      [] kind = "noisymixed" -> IF j <= 5 THEN 0 ELSE IF j <= 8 THEN 64 + j ELSE j

Unit(kind, len) == [j \in 1 .. len |-> UnitByte(kind, j)]

\* the lengths of the runs: the four the search looks for, and one it does not
UnitLengths == {10, 11, 12, 14, 16}

\* a run and its copy, after lead bytes of 0xFE and before tail bytes of 0xFF
PatternSample(kind, len, lead, tail) ==
    Repeat(254, lead) \o Unit(kind, len) \o Unit(kind, len) \o Repeat(255, tail)

PatternSamples ==
    { PatternSample(kind, len, lead, tail) :
        kind \in UnitKinds, len \in UnitLengths,
        lead \in 0 .. MaxPad, tail \in 0 .. MaxPad }

\* the samples given to analyze_data_quality
QualitySamples == {<<>>} \cup CountSamples \cup PatternSamples

ProberInit ==
    /\ quality_call = NoneValue
    /\ quality_out = NoneValue
    /\ try_all = FALSE
    /\ results = <<>>
    /\ probed = <<>>
    /\ best = NoneValue
    /\ baud_pc = "new"

\* one call of analyze_data_quality
AnalyzeDataQuality ==
    /\ quality_call = NoneValue
    /\ \E bytes \in QualitySamples :
        /\ quality_call' = bytes
        /\ quality_out' = analyze_data_quality(bytes)
    /\ UNCHANGED <<try_all, results, probed, best, baud_pc>>
    /\ UNCHANGED <<codecVars, analyzerVars, replayVars, captureVars, signalVars>>

NextQuality == AnalyzeDataQuality

(***************************************************************************)
(* baudrate_detect.py: main                                                *)
(***************************************************************************)

COMMON_BAUD_RATES == <<9600, 19200, 38400, 57600, 115200, 4800, 2400, 1200>>

\* what a trial can receive: nothing (a silent bus, a wrong rate or a port
\* that fails to open), one byte (score 50), three bytes with a letter
\* (score 70), a repeated run (score 80), a repeated run with some letters
\* (score 100)
TrialSamples ==
    { <<>>,
      <<128>>,
      <<65, 128, 128>>,
      PatternSample("control", 10, 0, 1),
      PatternSample("mixed", 10, 0, 1) }

\* sorted(results, key=score) without reverse: ascending score
SortedByScoreAsc(entries) ==
    LET Before(j, i) ==
            \/ entries[j].score < entries[i].score
            \/ entries[j].score = entries[i].score /\ j < i
        Rank(i) == Cardinality({j \in 1 .. Len(entries) : Before(j, i)}) + 1
    IN  [r \in 1 .. Len(entries) |-> entries[CHOOSE i \in 1 .. Len(entries) : Rank(i) = r]]

\* sorted(results, key=lambda x: x["score"], reverse=True): descending score,
\* equal scores in their original order
SortedByScoreDesc(entries) ==
    LET Before(j, i) ==
            \/ entries[j].score > entries[i].score
            \/ entries[j].score = entries[i].score /\ j < i
        Rank(i) == Cardinality({j \in 1 .. Len(entries) : Before(j, i)}) + 1
    IN  [r \in 1 .. Len(entries) |-> entries[CHOOSE i \in 1 .. Len(entries) : Rank(i) = r]]

\* the summary: best = sorted_results[0], or no best match without results
BestMatch(entries) ==
    IF entries # <<>> THEN SortedByScoreDesc(entries)[1] ELSE NoneValue

\* a good match stops the probing whatever the --all flag says
GoodMatchAlways(score, all) == score >= 80

\* analysis["score"] >= 80 and not try_all
GoodMatch(score, all) == score >= 80 /\ ~all

\* {"baud": baud, "bytes": byte_count, "data": data, **analysis}
ResultEntry(baud, bytes) ==
    LET analysis == analyze_data_quality(bytes)
    IN  [baud |-> baud, bytes |-> Len(bytes), data |-> bytes,
         score |-> analysis.score, reason |-> analysis.reason,
         printable_ratio |-> analysis.printable_ratio,
         noise_ratio |-> analysis.noise_ratio,
         has_patterns |-> analysis.has_patterns]

\* main is invoked, with or without --all
ProbeStart ==
    /\ baud_pc = "new"
    /\ \E all \in BOOLEAN : try_all' = all
    /\ results' = <<>>
    /\ baud_pc' = "probing"
    /\ UNCHANGED <<quality_call, quality_out, probed, best>>
    /\ UNCHANGED <<codecVars, analyzerVars, replayVars, captureVars, signalVars>>

\* one pass of the loop over COMMON_BAUD_RATES: the trial at the next rate
\* and, when it has data, its analysis; after a good match or the last rate
\* the summary follows
ProbeRate ==
    /\ baud_pc = "probing"
    /\ Len(probed) < Len(COMMON_BAUD_RATES)
    /\ \E bytes \in TrialSamples :
        LET baud == COMMON_BAUD_RATES[Len(probed) + 1]
            byte_count == Len(bytes)
            kept == IF byte_count > 0
                    THEN Append(results, ResultEntry(baud, bytes))
                    ELSE results
            stop == \/ byte_count > 0 /\ GoodMatch(kept[Len(kept)].score, try_all)
                    \/ Len(probed) + 1 = Len(COMMON_BAUD_RATES)
        IN  /\ probed' = Append(probed, baud)
            /\ results' = kept
            /\ IF stop
               THEN /\ best' = BestMatch(kept)
                    /\ baud_pc' = "done"
               ELSE UNCHANGED <<best, baud_pc>>
    /\ UNCHANGED <<quality_call, quality_out, try_all>>
    /\ UNCHANGED <<codecVars, analyzerVars, replayVars, captureVars, signalVars>>

NextProber == ProbeStart \/ ProbeRate

(***************************************************************************)
(* signal_analyze.py                                                       *)
(***************************************************************************)

\* times and pulse widths are floats in the source; here they are whole
\* numbers of tenths of a microsecond, the resolution of the rate table, so a
\* width in milliseconds is the number divided by WidthUnitsPerMs
WidthUnitsPerMs == 10000

\* sample values and thresholds are whole numbers of tenths
\* (the default threshold 0.5 is 5)
DefaultThreshold == 5

\* the scan of samples[1:], sample i + 1 being the next to look at
RECURSIVE FindEdgesLoop(_, _, _, _, _)
FindEdgesLoop(samples, threshold, i, prev_state, edges) ==
    IF i >= Len(samples) THEN edges
    ELSE LET time == samples[i + 1][1]
             value == samples[i + 1][2]
             state == value > threshold
         IN  IF state # prev_state
             THEN FindEdgesLoop(samples, threshold, i + 1, state,
                     Append(edges, <<time, IF state THEN "rising" ELSE "falling">>))
             ELSE FindEdgesLoop(samples, threshold, i + 1, prev_state, edges)

\* a scan that starts from a low state whatever the first sample is, and
\* looks at the first sample too
FindEdgesFromLow(samples, threshold) ==
    IF samples = <<>> THEN Raise("IndexError")
    ELSE Return(FindEdgesLoop(samples, threshold, 0, FALSE, <<>>))

\* find_edges(samples, threshold); samples[0] of an empty list raises
\* IndexError
find_edges(samples, threshold) ==
    IF samples = <<>> THEN Raise("IndexError")
    ELSE Return(FindEdgesLoop(samples, threshold, 1, samples[1][2] > threshold, <<>>))

\* the part of analyze_pulse_widths's result that classify_physical_layer
\* reads: min_width * 1000 and 1.0 / min_width for a shortest pulse of the
\* given width
PulseAnalysis(width) ==
    [min_width_ms |-> width,
     estimated_baud |-> IF width > 0 THEN Ratio(1000 * WidthUnitsPerMs, width)
                        ELSE Ratio(0, 1)]

\* {"error": ...}
ErrorAnalysis(msg) == [error |-> msg]

\* int(x) of a non-negative float
IntOf(ratio) == ratio.num \div ratio.den

\* rs485_rates, in the order of the dict: 0.104, 0.052, 0.026, 0.017 and
\* 0.0087 ms
rs485_rates ==
    << [rate |-> 9600, period |-> 1040],
       [rate |-> 19200, period |-> 520],
       [rate |-> 38400, period |-> 260],
       [rate |-> 57600, period |-> 170],
       [rate |-> 115200, period |-> 87] >>

\* abs()
Abs(x) == IF x < 0 THEN 0 - x ELSE x

\* the loop over rs485_rates.items(); best_match = None is 0, which `or`
\* treats alike, and best_diff = float("inf") is any negative number
RECURSIVE ClosestRate(_, _, _, _)
ClosestRate(min_width, k, best_match, best_diff) ==
    IF k > Len(rs485_rates) THEN best_match
    ELSE LET diff == Abs(min_width - rs485_rates[k].period)
         IN  IF best_diff < 0 \/ diff < best_diff
             THEN ClosestRate(min_width, k + 1, rs485_rates[k].rate, diff)
             ELSE ClosestRate(min_width, k + 1, best_match, best_diff)

\* a classification that takes all of 6.0 to 12.0 ms, the ends included, as
\* EnviraCOM
ClassifyBoundsIncluded(analysis) ==
    IF "error" \in DOMAIN analysis
    THEN [classification |-> "unknown", confidence |-> 0, reason |-> analysis.error]
    ELSE LET min_width == analysis.min_width_ms
         IN  IF 6 * WidthUnitsPerMs <= min_width /\ min_width <= 12 * WidthUnitsPerMs
             THEN [classification |-> "EnviraCOM", confidence |-> 90,
                   reason |-> "Pulse width matches EnviraCOM 120 baud",
                   estimated_baud |-> 120]
             ELSE IF min_width < 1 * WidthUnitsPerMs
             THEN [classification |-> "RS-485", confidence |-> 80,
                   reason |-> "Fast pulses suggest RS-485",
                   estimated_baud |-> ClosestRate(min_width, 1, 0, -1)]
             ELSE [classification |-> "unknown", confidence |-> 30,
                   reason |-> "Pulse width doesn't match known patterns",
                   estimated_baud |-> IntOf(analysis.estimated_baud)]

\* classify_physical_layer(analysis); the widths printed inside the reasons
\* are left out
classify_physical_layer(analysis) ==
    IF "error" \in DOMAIN analysis
    THEN [classification |-> "unknown", confidence |-> 0, reason |-> analysis.error]
    ELSE LET min_width == analysis.min_width_ms
             estimated_baud == analysis.estimated_baud
         IN  IF 6 * WidthUnitsPerMs < min_width /\ min_width < 12 * WidthUnitsPerMs
             THEN [classification |-> "EnviraCOM", confidence |-> 90,
                   reason |-> "Pulse width matches EnviraCOM 120 baud",
                   estimated_baud |-> 120]
             ELSE IF min_width < 1 * WidthUnitsPerMs
             THEN LET best_match == ClosestRate(min_width, 1, 0, -1)
                  IN  [classification |-> "RS-485", confidence |-> 80,
                       reason |-> "Fast pulses suggest RS-485",
                       estimated_baud |-> IF best_match # 0 THEN best_match
                                          ELSE IntOf(estimated_baud)]
             ELSE [classification |-> "unknown", confidence |-> 30,
                   reason |-> "Pulse width doesn't match known patterns",
                   estimated_baud |-> IntOf(estimated_baud)]

\* the widest of the fast pulses tried one by one, in tenths of a microsecond
MaxFastWidth == 1100

\* how far on either side of 1.0, 6.0 and 12.0 ms the widths are tried
ThresholdMargin == 10

\* shortest pulse widths: none or negative (samples out of order), every fast
\* width up to MaxFastWidth, the neighbourhoods of the three thresholds, and
\* 8.33 ms
WidthSamples ==
    {-10} \cup (0 .. MaxFastWidth)
        \cup { k * WidthUnitsPerMs + d :
                 k \in {1, 6, 12}, d \in (0 - ThresholdMargin) .. ThresholdMargin }
        \cup {83300}

\* the analyses given to classify_physical_layer
PulseAnalyses ==
    {ErrorAnalysis("Not enough edges"), ErrorAnalysis("No pulse widths calculated")}
        \cup {PulseAnalysis(width) : width \in WidthSamples}

\* the most samples in a trace
MaxSamples == 5

\* the levels of a sample, in tenths: below, at and above the default threshold
SampleValues == {0, 5, 10}

\* the thresholds tried
Thresholds == {0, DefaultThreshold}

\* the time of the i-th sample of a trace: one every 52 microseconds
SampleTime(i) == 520 * i

\* the traces given to find_edges: (time, value) pairs
EdgeSamples ==
    UNION { { [i \in 1 .. n |-> <<SampleTime(i), levels[i]>>] :
                levels \in [1 .. n -> SampleValues] } :
            n \in 0 .. MaxSamples }

\* no signal_analyze function has been called
NoSignalCall == [op |-> "none"]

SignalInit ==
    /\ signal_call = NoSignalCall
    /\ signal_out = NoneValue

\* one call of find_edges
FindEdges ==
    /\ signal_call = NoSignalCall
    /\ \E samples \in EdgeSamples, threshold \in Thresholds :
        /\ signal_call' = [op |-> "find_edges", samples |-> samples,
                           threshold |-> threshold]
        /\ signal_out' = find_edges(samples, threshold)
    /\ UNCHANGED <<codecVars, analyzerVars, replayVars, captureVars, proberVars>>

\* one call of classify_physical_layer
ClassifyPhysicalLayer ==
    /\ signal_call = NoSignalCall
    /\ \E analysis \in PulseAnalyses :
        /\ signal_call' = [op |-> "classify_physical_layer", analysis |-> analysis]
        /\ signal_out' = classify_physical_layer(analysis)
    /\ UNCHANGED <<codecVars, analyzerVars, replayVars, captureVars, proberVars>>

NextSignal == FindEdges \/ ClassifyPhysicalLayer

Init ==
    /\ CodecInit
    /\ AnalyzerInit
    /\ ReplayInit
    /\ CaptureInit
    /\ ProberInit
    /\ SignalInit

\* the packet parser and its renderers
Spec == Init /\ [][Next]_vars

\* the capture analyzer over capture files
SpecAnalyzer == Init /\ [][NextAnalyzer]_vars

\* capture files, whole or cut short, read by the analyzer and the replayer
SpecCaptureFile == Init /\ [][NextCaptureFile]_vars

\* the capture analyzer over a long capture
SpecSeries == Init /\ [][NextSeries]_vars

\* the live capture loop
SpecCapture == Init /\ [][NextCapture]_vars

\* the scoring of one sample
SpecQuality == Init /\ [][NextQuality]_vars

\* the probing of the baud rates
SpecProber == Init /\ [][NextProber]_vars

\* the edge finder and the physical-layer classifier
SpecSignal == Init /\ [][NextSignal]_vars

\* the replay tool on a capture file
SpecReplay == Init /\ [][NextReplay]_vars

(***************************************************************************)
(* Helpers of the properties below.                                        *)
(***************************************************************************)

\* str.lower() on character codes
Lower(s) == [i \in 1 .. Len(s) |-> IF 65 <= s[i] /\ s[i] <= 90 THEN s[i] + 32 ELSE s[i]]

\* sub in s
Contains(s, sub) ==
    \E i \in 0 .. (Len(s) - Len(sub)) : SubSeq(s, i + 1, i + Len(sub)) = sub

\* "too short"
TooShortText == <<116, 111, 111, 32, 115, 104, 111, 114, 116>>

\* the value of one hex digit, -1 for any other character
HexValue(c) ==
    IF 48 <= c /\ c <= 57 THEN c - 48
    ELSE IF 97 <= c /\ c <= 102 THEN c - 87
    ELSE IF 65 <= c /\ c <= 70 THEN c - 55
    ELSE -1

\* bytes.fromhex on a string without separators; NoneValue when it does not parse
FromHex(h) ==
    IF Len(h) % 2 # 0 \/ \E i \in 1 .. Len(h) : HexValue(h[i]) < 0
    THEN NoneValue
    ELSE [i \in 1 .. (Len(h) \div 2) |-> 16 * HexValue(h[2 * i - 1]) + HexValue(h[2 * i])]

\* "".join(s.split(" ")): s without its spaces
WithoutSpaces(s) == SelectSeq(s, LAMBDA c : c # 32)

\* the state right after a from_bytes call
Decoded == call.op = "from_bytes"

\* the declared length does not fit the bytes between header and checksum
LengthMismatch == 10 + data[7] > Len(data) - 2

\* the header fields and the checksum of the frame, computed arithmetically
HeaderExtracted ==
    /\ packet.dest_addr = 256 * data[1] + data[2]
    /\ packet.src_addr = 256 * data[3] + data[4]
    /\ packet.msg_type = data[5]
    /\ packet.sequence = data[6]
    /\ packet.payload_length = data[7]
    /\ packet.header_extra = <<data[8], data[9], data[10]>>
    /\ packet.checksum = 256 * data[Len(data) - 1] + data[Len(data)]

(***************************************************************************)
(* Properties of Packet.from_bytes and the renderers.                      *)
(***************************************************************************)

\* C1: every frame shorter than 12 bytes (the empty one included) decodes, without
\* raising, to a packet whose parse_error contains "too short" (case-insensitive)
\* and whose fields are all left at their defaults.
ShortFrameRejected ==
    (Decoded /\ Len(data) < 12) =>
        /\ ret.kind = "return"
        /\ packet.parse_error # NoneValue
        /\ Contains(Lower(packet.parse_error), TooShortText)
        /\ packet.dest_addr = 0
        /\ packet.src_addr = 0
        /\ packet.msg_type = 0
        /\ packet.sequence = 0
        /\ packet.payload_length = 0
        /\ packet.checksum = 0
        /\ packet.payload = <<>>

\* an 11-byte frame has been decoded
ShortFrameDecoded == Decoded /\ Len(data) = 11 /\ packet.parse_error # NoneValue

\* C2 (as claimed): a packet without parse_error has len(raw) = 10 + len(payload) + 2.
ErrorFreePacketIsExact ==
    (Decoded /\ packet.parse_error = NoneValue) =>
        Len(packet.raw) = 10 + Len(packet.payload) + 2

\* C3: a frame of at least 12 bytes whose declared length exceeds the bytes
\* available decodes, without raising, to a packet with the mismatch message,
\* payload data[10:-2], and the header fields and checksum extracted.
MismatchFallsBack ==
    (Decoded /\ Len(data) >= 12 /\ LengthMismatch) =>
        /\ ret.kind = "return"
        /\ packet.parse_error = MismatchMessage(data[7], Len(data))
        /\ packet.payload = SubSeq(data, 11, Len(data) - 2)
        /\ HeaderExtracted

\* a mismatching frame with a non-empty fallback payload has been decoded
MismatchDecoded ==
    /\ Decoded /\ Len(data) >= 12 /\ LengthMismatch
    /\ Len(packet.payload) > 0
    /\ packet.parse_error # NoneValue

\* C4: every frame of at least 12 bytes has its header fields read big-endian at
\* the fixed offsets and its checksum from the final two bytes; when the declared
\* length fits, the payload is data[10:10+payload_length] and there is no error.
FieldsExtracted ==
    (Decoded /\ Len(data) >= 12) =>
        /\ HeaderExtracted
        /\ ~LengthMismatch =>
            /\ packet.payload = SubSeq(data, 11, 10 + data[7])
            /\ packet.parse_error = NoneValue

\* the 12-byte frame 20 01 40 01 .. with length byte 0 has been decoded
MinimumFrameDecoded ==
    /\ Decoded /\ Len(data) = 12 /\ data[7] = 0
    /\ packet.dest_addr = 8193 /\ packet.src_addr = 16385
    /\ packet.payload = <<>> /\ packet.parse_error = NoneValue

\* C5 (as claimed): the payload of every decoded packet has at most 240 bytes.
PayloadAtMost240 == Decoded => Len(packet.payload) <= 240

\* the frame with its two trailing bytes replaced
WithChecksum(bytes, ck) == SubSeq(bytes, 1, Len(bytes) - 2) \o ck

\* C6: for a frame of at least 12 bytes the parse_error is decided by the frame
\* length and the length byte alone, is the same whatever the two trailing bytes
\* are, and checksum_valid is recorded true.
ChecksumNeverRejects ==
    (Decoded /\ Len(data) >= 12) =>
        /\ packet.checksum_valid = TRUE
        /\ packet.parse_error =
            (IF 10 + data[7] > Len(data) - 2
             THEN MismatchMessage(data[7], Len(data)) ELSE NoneValue)
        /\ \A ck \in ChecksumPairs \cup { <<255, 255>>, <<171, 205>> } :
            from_bytes(WithChecksum(data, ck), timestamp).parse_error = packet.parse_error

\* an error-free frame whose trailing bytes are not the byte sum has been decoded
WrongSumAccepted ==
    /\ Decoded /\ Len(data) >= 12
    /\ packet.parse_error = NoneValue
    /\ packet.checksum # calculate_checksum(SubSeq(data, 1, Len(data) - 2))
    /\ packet.checksum_valid

\* C7 (as claimed): to_hex(" ") with its spaces removed parses back to raw, and
\* to_hex("") returns a string of length 2 * len(raw).
ToHexRoundTrips ==
    (call.op = "to_hex") =>
        /\ call.separator = <<32>> =>
            /\ ret.kind = "return"
            /\ FromHex(WithoutSpaces(ret.value)) = packet.raw
        /\ call.separator = <<>> =>
            /\ ret.kind = "return"
            /\ Len(ret.value) = 2 * Len(packet.raw)

\* the half of C7 that the code satisfies: the round trip with the " " separator
ToHexSpaceRoundTrips ==
    (call.op = "to_hex" /\ call.separator = <<32>>) =>
        /\ ret.kind = "return"
        /\ FromHex(WithoutSpaces(ret.value)) = packet.raw

FormatOps == {"to_hex", "format_header", "format_payload", "__str__"}

InputsPreserved ==
    Decoded => (packet.raw = data /\ packet.timestamp = timestamp)

\* a frame with a parse_error and a non-default timestamp has been decoded
ErroredFrameKeepsTimestamp ==
    /\ Decoded
    /\ packet.parse_error # NoneValue
    /\ timestamp # 0
    /\ packet.timestamp = timestamp

(***************************************************************************)
(* Properties of CaptureAnalyzer.                                          *)
(***************************************************************************)

\* the packets of the analyzer that carry no parse_error
ValidPackets == {i \in 1 .. Len(packets) : ~Truthy(packets[i].parse_error)}

\* every address and message type that occurs in a packet or in a table
SeenAddresses ==
    {packets[i].src_addr : i \in 1 .. Len(packets)}
    \cup {packets[i].dest_addr : i \in 1 .. Len(packets)}
    \cup {addresses[i].key : i \in 1 .. Len(addresses)}

SeenMessageTypes ==
    {packets[i].msg_type : i \in 1 .. Len(packets)}
    \cup {message_types[i].key : i \in 1 .. Len(message_types)}

\* C10 (as claimed): a packet with parse_error set contributes to no statistic:
\* after analyze the address counts, the message-type counts and the conversation
\* groups are those of the valid packets alone, and every prefix count that
\* find_patterns reports is the count over the valid packets alone.
ErroredPacketsExcluded ==
    /\ analyzer_call.op = "analyze" =>
        /\ \A a \in SeenAddresses :
            CounterGet(addresses, a) =
                Cardinality({i \in ValidPackets : packets[i].src_addr = a})
                + Cardinality({i \in ValidPackets : packets[i].dest_addr = a})
        /\ \A t \in SeenMessageTypes :
            CounterGet(message_types, t) =
                Cardinality({i \in ValidPackets : packets[i].msg_type = t})
        /\ \A g \in 1 .. Len(conversations) :
            \A k \in 1 .. Len(conversations[g].packets) :
                conversations[g].packets[k] \in ValidPackets
    /\ analyzer_call.op = "find_patterns" =>
        \A r \in 1 .. Len(analyzer_out) :
            analyzer_out[r].count =
                Cardinality({i \in ValidPackets :
                    /\ Len(packets[i].payload) >= PrefixLength
                    /\ SubSeq(packets[i].payload, 1, PrefixLength) = analyzer_out[r].key})

\* the part of C10 that the code satisfies: the three tables of analyze
ErroredPacketsExcludedByAnalyze ==
    analyzer_call.op = "analyze" =>
        /\ \A a \in SeenAddresses :
            CounterGet(addresses, a) =
                Cardinality({i \in ValidPackets : packets[i].src_addr = a})
                + Cardinality({i \in ValidPackets : packets[i].dest_addr = a})
        /\ \A t \in SeenMessageTypes :
            CounterGet(message_types, t) =
                Cardinality({i \in ValidPackets : packets[i].msg_type = t})
        /\ \A g \in 1 .. Len(conversations) :
            \A k \in 1 .. Len(conversations[g].packets) :
                conversations[g].packets[k] \in ValidPackets

(***************************************************************************)
(* The analyzer's tables                                                   *)
(***************************************************************************)

\* the sum of the counts of a table
RECURSIVE TotalCount(_)
TotalCount(counter) ==
    IF counter = <<>> THEN 0 ELSE counter[1].count + TotalCount(Tail(counter))

\* no key occurs twice in a table
KeysDistinct(counter) ==
    \A i, j \in 1 .. Len(counter) : counter[i].key = counter[j].key => i = j

\* the places (group, position) at which the conversation table lists packet i
ConversationPlaces(i) ==
    {gk \in {<<g, k>> : g \in 1 .. Len(conversations), k \in 1 .. MaxSeries + 1} :
        /\ gk[2] <= Len(conversations[gk[1]].packets)
        /\ conversations[gk[1]].packets[gk[2]] = i}

\* C11: after analyze the count of an address is the number of valid packets it
\* sends plus the number it receives (a packet sent to oneself counts twice), the
\* address counts sum to twice the number of valid packets, the message-type
\* counts sum to the number of valid packets, and the conversation groups
\* partition the valid packets.
CountsMatchValidPackets ==
    analyzer_call.op = "analyze" =>
        /\ KeysDistinct(addresses)
        /\ KeysDistinct(message_types)
        /\ KeysDistinct(conversations)
        /\ \A a \in SeenAddresses :
            CounterGet(addresses, a) =
                Cardinality({i \in ValidPackets : packets[i].src_addr = a})
                + Cardinality({i \in ValidPackets : packets[i].dest_addr = a})
        /\ TotalCount(addresses) = 2 * Cardinality(ValidPackets)
        /\ TotalCount(message_types) = Cardinality(ValidPackets)
        /\ \A i \in ValidPackets : Cardinality(ConversationPlaces(i)) = 1
        /\ \A i \in (1 .. Len(packets)) \ ValidPackets : ConversationPlaces(i) = {}
        /\ \A g \in 1 .. Len(conversations) :
            \A k \in 1 .. Len(conversations[g].packets) :
                conversations[g].packets[k] \in ValidPackets

\* an analysis of a capture with a packet a device sends to itself, another
\* valid packet and an errored one
SelfAddressedCounted ==
    /\ analyzer_call.op = "analyze"
    /\ Cardinality(ValidPackets) >= 2
    /\ ValidPackets # 1 .. Len(packets)
    /\ \E i \in ValidPackets : packets[i].src_addr = packets[i].dest_addr

(***************************************************************************)
(* The rankings of print_summary                                           *)
(***************************************************************************)

\* what the tables of a fresh analysis would count
AddressCount(a) ==
    Cardinality({i \in ValidPackets : packets[i].src_addr = a})
    + Cardinality({i \in ValidPackets : packets[i].dest_addr = a})

MessageTypeCount(t) == Cardinality({i \in ValidPackets : packets[i].msg_type = t})

\* the analyzer's tables are those of its current packet list
TablesCurrent ==
    /\ \A a \in SeenAddresses : CounterGet(addresses, a) = AddressCount(a)
    /\ \A t \in SeenMessageTypes : CounterGet(message_types, t) = MessageTypeCount(t)

\* where in the packet list an address first occurs in a valid packet: the
\* source of packet i at 2i - 1, its destination at 2i
AddressFirstSeen(a) ==
    LET at == {2 * i - 1 : i \in {j \in ValidPackets : packets[j].src_addr = a}}
              \cup {2 * i : i \in {j \in ValidPackets : packets[j].dest_addr = a}}
    IN  CHOOSE n \in at : \A m \in at : n <= m

MessageTypeFirstSeen(t) ==
    LET at == {i \in ValidPackets : packets[i].msg_type = t}
    IN  CHOOSE n \in at : \A m \in at : n <= m

\* the rows list every key of the table once, with its count
RowsOfTable(rows, counter) ==
    /\ Len(rows) = Len(counter)
    /\ KeysDistinct(rows)
    /\ \A r \in 1 .. Len(rows) :
        /\ CounterHas(counter, rows[r].key)
        /\ rows[r].count = CounterGet(counter, rows[r].key)

\* C12 (as claimed): the address ranking and the message-type ranking are in
\* descending count, and equal counts are in ascending numeric key, whatever the
\* order in which the packets were seen.
RankingTiesByAscendingKey ==
    analyzer_call.op = "print_summary" /\ TablesCurrent =>
        /\ \A r \in 1 .. Len(analyzer_out.addresses) - 1 :
            LET this == analyzer_out.addresses[r]
                next == analyzer_out.addresses[r + 1]
            IN  \/ this.count > next.count
                \/ this.count = next.count /\ this.key < next.key
        /\ \A r \in 1 .. Len(analyzer_out.message_types) - 1 :
            LET this == analyzer_out.message_types[r]
                next == analyzer_out.message_types[r + 1]
            IN  \/ this.count > next.count
                \/ this.count = next.count /\ this.key < next.key

\* what the rankings are instead: they list every key of their table once, in
\* descending count, and equal counts are in the order in which the keys first
\* occurred in the valid packets (the source of a packet before its
\* destination), so the order of ties follows the packet order
RankingTiesByFirstSeen ==
    analyzer_call.op = "print_summary" /\ TablesCurrent =>
        /\ RowsOfTable(analyzer_out.addresses, addresses)
        /\ RowsOfTable(analyzer_out.message_types, message_types)
        /\ \A r \in 1 .. Len(analyzer_out.addresses) - 1 :
            LET this == analyzer_out.addresses[r]
                next == analyzer_out.addresses[r + 1]
            IN  \/ this.count > next.count
                \/ /\ this.count = next.count
                   /\ AddressFirstSeen(this.key) < AddressFirstSeen(next.key)
        /\ \A r \in 1 .. Len(analyzer_out.message_types) - 1 :
            LET this == analyzer_out.message_types[r]
                next == analyzer_out.message_types[r + 1]
            IN  \/ this.count > next.count
                \/ /\ this.count = next.count
                   /\ MessageTypeFirstSeen(this.key) < MessageTypeFirstSeen(next.key)

(***************************************************************************)
(* Conversations                                                           *)
(***************************************************************************)

\* the stored grouping is that of the current packet list: every group holds
\* exactly the valid packets of its ordered (source, destination) pair, in
\* their original order, and every valid packet is in the group of its pair
GroupedByOrderedPair ==
    /\ KeysDistinct(conversations)
    /\ \A g \in 1 .. Len(conversations) :
        LET members == conversations[g].packets
        IN  /\ members # <<>>
            /\ \A k \in 1 .. Len(members) :
                /\ members[k] \in ValidPackets
                /\ conversations[g].key =
                    <<packets[members[k]].src_addr, packets[members[k]].dest_addr>>
            /\ \A k \in 1 .. Len(members) - 1 : members[k] < members[k + 1]
    /\ \A i \in ValidPackets :
        \E g \in 1 .. Len(conversations) :
            \E k \in 1 .. Len(conversations[g].packets) : conversations[g].packets[k] = i

\* the surfaced conversation rows are the largest groups of the stored grouping,
\* at most ConversationTableLimit of them, in non-increasing count
TopConversationsSurfaced ==
    LET rows == analyzer_out.conversations
        size(key) == Len(conversations[CHOOSE g \in 1 .. Len(conversations) :
                                            conversations[g].key = key].packets)
        surfaced == {rows[r].key : r \in 1 .. Len(rows)}
    IN  /\ Len(rows) = Min(ConversationTableLimit, Len(conversations))
        /\ KeysDistinct(rows)
        /\ \A r \in 1 .. Len(rows) :
            /\ \E g \in 1 .. Len(conversations) : conversations[g].key = rows[r].key
            /\ rows[r].count = size(rows[r].key)
        /\ \A r \in 1 .. Len(rows) - 1 : rows[r].count >= rows[r + 1].count
        /\ \A g \in 1 .. Len(conversations) :
            conversations[g].key \notin surfaced =>
                \A r \in 1 .. Len(rows) : rows[r].count >= Len(conversations[g].packets)

\* C13: analyze groups the valid packets by the ordered pair (source,
\* destination), (a, b) apart from (b, a), each group in original packet order;
\* print_summary surfaces at most the 20 largest groups in non-increasing count
\* and leaves every group, also those beyond the 20, in the stored grouping.
ConversationsGroupedAndRanked ==
    [][ /\ analyzer_call'.op = "analyze" => GroupedByOrderedPair'
        /\ analyzer_call'.op = "print_summary" =>
            /\ TopConversationsSurfaced'
            /\ conversations' = conversations ]_vars

\* a summary of a capture with more than 20 conversations, two of them the two
\* directions of one pair, where the group stored last is the largest and
\* ranked first, and a stored group is not surfaced
TwentyFirstConversationKept ==
    /\ analyzer_call.op = "print_summary"
    /\ GroupedByOrderedPair
    /\ Len(conversations) > ConversationTableLimit
    /\ Len(analyzer_out.conversations) = ConversationTableLimit
    /\ \E g, h \in 1 .. Len(conversations) :
        /\ conversations[g].key[1] # conversations[g].key[2]
        /\ conversations[h].key = <<conversations[g].key[2], conversations[g].key[1]>>
    /\ analyzer_out.conversations[1].key = conversations[Len(conversations)].key
    /\ analyzer_out.conversations[1].count = 2

(***************************************************************************)
(* Payload prefixes                                                        *)
(***************************************************************************)

\* the packets of the list whose payload starts with the given prefix
PacketsWithPrefix(prefix) ==
    {i \in 1 .. Len(packets) :
        /\ Len(packets[i].payload) >= PrefixLength
        /\ SubSeq(packets[i].payload, 1, PrefixLength) = prefix}

\* the distinct prefixes of the packets with at least PrefixLength payload bytes
PayloadPrefixes ==
    {SubSeq(packets[i].payload, 1, PrefixLength) :
        i \in {j \in 1 .. Len(packets) : Len(packets[j].payload) >= PrefixLength}}

\* the first packet of the list with the given prefix
PrefixFirstSeen(prefix) ==
    CHOOSE n \in PacketsWithPrefix(prefix) : \A m \in PacketsWithPrefix(prefix) : n <= m

\* C14: find_patterns never reports a prefix whose occurrence count is below
\* min_occurrences: every row's count, and the number of packets that start
\* with the row's prefix, is at least min_occurrences.
NoPrefixBelowMinOccurrences ==
    analyzer_call.op = "find_patterns" =>
        \A r \in 1 .. Len(analyzer_out) :
            /\ analyzer_out[r].count >= analyzer_call.arg
            /\ Cardinality(PacketsWithPrefix(analyzer_out[r].key)) >= analyzer_call.arg

\* find_patterns(2) on a capture where one prefix occurs twice and others once:
\* the one is reported, the others are not
RarePrefixesHeldBack ==
    /\ analyzer_call.op = "find_patterns"
    /\ analyzer_call.arg = 2
    /\ Len(analyzer_out) = 1
    /\ Cardinality(PayloadPrefixes) >= 3

\* the prefixes that occur at least min_occurrences times
QualifyingPrefixes ==
    {p \in PayloadPrefixes : Cardinality(PacketsWithPrefix(p)) >= analyzer_call.arg}

\* the rows are prefixes of the packet list with their occurrence counts, each
\* meeting min_occurrences, in descending count
RowsRankedAndCounted ==
    /\ KeysDistinct(analyzer_out)
    /\ \A r \in 1 .. Len(analyzer_out) :
        /\ analyzer_out[r].key \in QualifyingPrefixes
        /\ analyzer_out[r].count = Cardinality(PacketsWithPrefix(analyzer_out[r].key))
    /\ \A r \in 1 .. Len(analyzer_out) - 1 :
        analyzer_out[r].count >= analyzer_out[r + 1].count

\* C15 (as claimed): find_patterns counts each distinct prefix over the packets
\* with at least PrefixLength payload bytes and reports the prefixes that meet
\* min_occurrences in descending count: every prefix that meets it is reported,
\* however many distinct prefixes there are.
EveryQualifyingPrefixReported ==
    analyzer_call.op = "find_patterns" =>
        /\ RowsRankedAndCounted
        /\ \A p \in QualifyingPrefixes :
            \E r \in 1 .. Len(analyzer_out) : analyzer_out[r].key = p

\* C15 (amended): find_patterns counts each distinct prefix over the packets
\* with at least PrefixLength payload bytes and reports prefixes that meet
\* min_occurrences in descending count: all of them when at most 20 meet it,
\* and otherwise the 20 that rank first by count and, among equal counts, by
\* first occurrence in the packet list.
TopQualifyingPrefixesReported ==
    analyzer_call.op = "find_patterns" =>
        /\ RowsRankedAndCounted
        /\ Len(analyzer_out) = Min(PatternTableLimit, Cardinality(QualifyingPrefixes))
        /\ \A p \in QualifyingPrefixes :
            \/ \E r \in 1 .. Len(analyzer_out) : analyzer_out[r].key = p
            \/ \A r \in 1 .. Len(analyzer_out) :
                \/ analyzer_out[r].count > Cardinality(PacketsWithPrefix(p))
                \/ /\ analyzer_out[r].count = Cardinality(PacketsWithPrefix(p))
                   /\ PrefixFirstSeen(analyzer_out[r].key) < PrefixFirstSeen(p)

\* find_patterns(1) on a capture with more than 20 distinct prefixes, the last
\* of which occurs twice: it is reported first, and a prefix that occurs once
\* is left out
TwentyFirstPrefixLeftOut ==
    /\ analyzer_call.op = "find_patterns"
    /\ analyzer_call.arg = 1
    /\ Cardinality(QualifyingPrefixes) > PatternTableLimit
    /\ Len(analyzer_out) = PatternTableLimit
    /\ analyzer_out[1].count = 2
    /\ PrefixFirstSeen(analyzer_out[1].key) > PatternTableLimit

(***************************************************************************)
(* filter_by_address                                                       *)
(***************************************************************************)

\* C16: filter_by_address(addr) returns exactly the packets without parse_error
\* whose source or destination is addr, each once, in list order; an errored
\* packet is never returned, even when its extracted addresses match.
FilterReturnsValidMatches ==
    analyzer_call.op = "filter_by_address" =>
        /\ \A k \in 1 .. Len(analyzer_out) - 1 : analyzer_out[k] < analyzer_out[k + 1]
        /\ {analyzer_out[k] : k \in 1 .. Len(analyzer_out)} =
            {i \in ValidPackets :
                \/ packets[i].src_addr = analyzer_call.arg
                \/ packets[i].dest_addr = analyzer_call.arg}

\* a filter that returns two packets and leaves out an errored packet whose
\* extracted address matches
ErroredMatchLeftOut ==
    /\ analyzer_call.op = "filter_by_address"
    /\ Len(analyzer_out) = 2
    /\ \E i \in (1 .. Len(packets)) \ ValidPackets :
        /\ packets[i].src_addr = analyzer_call.arg
        /\ \A k \in 1 .. Len(analyzer_out) : analyzer_out[k] # i

(***************************************************************************)
(* Analysis as a pure read                                                 *)
(***************************************************************************)

ReadOperations == {"analyze", "print_summary", "find_patterns", "filter_by_address"}

\* C17: analysis is a deterministic pure read of the stored packets.  No
\* analysis or filter operation changes the packet list, a packet or the file;
\* analyze leaves the tables of the current packet list whatever the tables held
\* before (counts do not accumulate), and leaves them identical when they
\* already were those of the packet list; the rankings and the filters leave the
\* tables alone, and a ranking run again gives the same rows.
AnalysisIsPureRead ==
    [][ /\ analyzer_call'.op \in ReadOperations =>
            /\ packets' = packets
            /\ capture_file' = capture_file
        /\ analyzer_call'.op = "analyze" =>
            /\ TablesCurrent'
            /\ GroupedByOrderedPair'
            /\ TablesCurrent /\ GroupedByOrderedPair =>
                /\ addresses' = addresses
                /\ message_types' = message_types
                /\ conversations' = conversations
        /\ analyzer_call'.op \in ReadOperations \ {"analyze"} =>
            /\ addresses' = addresses
            /\ message_types' = message_types
            /\ conversations' = conversations
        /\ analyzer_call'.op = "print_summary" /\ analyzer_call.op = "print_summary" =>
            analyzer_out' = analyzer_out ]_vars

\* a ranking of the analysis of three packets, one of them errored, with the
\* tables those of the list
RankedAfterReload ==
    /\ analyzer_call.op = "print_summary"
    /\ Len(packets) = 3
    /\ Cardinality(ValidPackets) = 2
    /\ TablesCurrent
    /\ GroupedByOrderedPair
    /\ Len(analyzer_out.addresses) = 2

(***************************************************************************)
(* Capture files: what the loaders read back                               *)
(***************************************************************************)

\* the records written to the file that lie whole within its current bytes
RECURSIVE WholeRecords(_, _)
WholeRecords(records, size) ==
    IF records = <<>> \/ 12 + Len(records[1][2]) > size THEN <<>>
    ELSE <<records[1]>> \o WholeRecords(Tail(records), size - 12 - Len(records[1][2]))

CompleteRecords == WholeRecords(written, Len(capture_file))

\* the file ends inside the data of a record whose header is whole
CutInsideData ==
    /\ Len(CompleteRecords) < Len(written)
    /\ Len(capture_file) >= EncodedLength(CompleteRecords) + 12

\* the bytes of the cut record's data that are still in the file
AvailableData ==
    SubSeq(written[Len(CompleteRecords) + 1][2], 1,
           Len(capture_file) - EncodedLength(CompleteRecords) - 12)

\* the analyzer, which appends on every load, holds the given records once or
\* several times over, each as a packet with that raw data and timestamp
AnalyzerHolds(records) ==
    IF records = <<>> THEN packets = <<>>
    ELSE /\ Len(packets) % Len(records) = 0
         /\ Len(packets) >= Len(records)
         /\ \A i \in 1 .. Len(packets) :
            LET rec == records[((i - 1) % Len(records)) + 1]
            IN  /\ packets[i].timestamp = rec[1]
                /\ packets[i].raw = rec[2]

\* C18 (as claimed): a record whose declared length exceeds the bytes left in
\* the file is cut to the bytes available and still yielded after the complete
\* records before it.
CutRecordYielded ==
    /\ replay_call.op = "load_capture" /\ CutInsideData =>
        replay_packets =
            Append(CompleteRecords, <<written[Len(CompleteRecords) + 1][1], AvailableData>>)
    /\ analyzer_call.op = "load_capture" /\ CutInsideData =>
        AnalyzerHolds(
            Append(CompleteRecords, <<written[Len(CompleteRecords) + 1][1], AvailableData>>))

\* C18 (amended): when the file ends inside a record, in its header or in its
\* data, both loaders return without failing, yield the complete records before
\* it in file order, and yield nothing for the cut record.
CutRecordDropped ==
    /\ replay_call.op = "load_capture" /\ Len(CompleteRecords) < Len(written) =>
        replay_packets = CompleteRecords
    /\ analyzer_call.op = "load_capture" /\ Len(CompleteRecords) < Len(written) =>
        AnalyzerHolds(CompleteRecords)

\* both loaders have read a file of two records that ends inside the data of
\* the second, with at least one byte of it present: each holds one record
CutInsideSecondRecord ==
    /\ replay_call.op = "load_capture"
    /\ analyzer_call.op = "load_capture"
    /\ CutInsideData
    /\ AvailableData # <<>>
    /\ Len(CompleteRecords) = 1
    /\ Len(replay_packets) = 1
    /\ Len(packets) = 1

\* C19: the capture file round-trips.  A file of records written by
\* _write_packet is as long as its records (12 header bytes and the data each,
\* no trailer), and both loaders read back exactly the timestamps and byte
\* strings written, in order; on any file, whole or cut, the analyzer's loader
\* and the replayer's loader yield the same records.
CaptureFileRoundTrips ==
    /\ Len(capture_file) <= EncodedLength(written)
    /\ Len(capture_file) = EncodedLength(written) =>
        /\ replay_call.op = "load_capture" => replay_packets = written
        /\ analyzer_call.op = "load_capture" => AnalyzerHolds(written)
    /\ replay_call.op = "load_capture" /\ analyzer_call.op = "load_capture" =>
        AnalyzerHolds(replay_packets)

\* both loaders have read back a whole file of two different records, one of
\* them too short to decode
TwoRecordsReadBack ==
    /\ replay_call.op = "load_capture"
    /\ analyzer_call.op = "load_capture"
    /\ Len(capture_file) = EncodedLength(written)
    /\ Len(written) = 2
    /\ written[1] # written[2]
    /\ Len(written[2][2]) < 12
    /\ replay_packets = written
    /\ Len(packets) = 2

(***************************************************************************)
(* Live capture: frame boundaries                                          *)
(***************************************************************************)

\* the records of the capture file, as (timestamp, data) pairs
FileRecords(file) == replay_load_capture(file)

\* C20: in live capture a frame is written only by a poll that finds no new
\* bytes while at least one byte is buffered and more than the quiet interval
\* (50 ms) has passed since bytes were last buffered; the frame is the whole
\* buffer, never empty; and a poll that finds new bytes appends them to the
\* buffer and writes no frame in the same step.
FrameOnlyAfterQuietInterval ==
    [][ LET before == FileRecords(capture_file)
            after == FileRecords(capture_file')
        IN  /\ after # before =>
                /\ buffer # <<>>
                /\ serial_conn = <<>>
                /\ clock - last_data_time > packet_timeout
                /\ Len(after) = Len(before) + 1
                /\ SubSeq(after, 1, Len(before)) = before
                /\ after[Len(after)][2] = buffer
                /\ buffer' = <<>>
            /\ \A r \in 1 .. Len(after) : Len(after[r][2]) >= 1
            /\ capture_pc = "loop" /\ running /\ clock' > clock /\ serial_conn # <<>> =>
                /\ buffer' = buffer \o serial_conn
                /\ serial_conn' = <<>>
                /\ last_data_time' = clock
                /\ after = before ]_vars

\* a capture that has written one frame of two bytes and now holds a new byte
\* in its buffer that has been quiet for exactly the interval: no frame yet
SecondFrameStillBuffered ==
    /\ capture_pc = "loop"
    /\ running
    /\ Len(FileRecords(capture_file)) = 1
    /\ Len(FileRecords(capture_file)[1][2]) = 2
    /\ packets_captured = 1
    /\ buffer # <<>>
    /\ serial_conn = <<>>
    /\ clock - last_data_time = packet_timeout

(***************************************************************************)
(* Live capture: stopping                                                  *)
(***************************************************************************)

\* the data of the given records, one after the other
RECURSIVE RecordData(_)
RecordData(records) ==
    IF records = <<>> THEN <<>>
    ELSE RecordData(SubSeq(records, 1, Len(records) - 1)) \o records[Len(records)][2]

\* C21: when live capture is stopped, after running was set to false or by
\* KeyboardInterrupt, while bytes are buffered that no quiet interval has
\* closed, those bytes are discarded: the stop writes no record, leaves
\* packets_captured and bytes_captured as they were, and the capture file holds
\* exactly the frames emitted before the stop, which are the bytes read from
\* the port without the buffered ones.
BufferedBytesDiscardedOnStop ==
    [][ capture_pc = "loop" /\ capture_pc' = "stopped" /\ buffer # <<>> =>
            /\ capture_file' = capture_file
            /\ packets_captured' = packets_captured
            /\ bytes_captured' = bytes_captured
            /\ buffer' = <<>>
            /\ packets_captured' = Len(FileRecords(capture_file'))
            /\ bytes_captured' = Len(RecordData(FileRecords(capture_file')))
            /\ RecordData(FileRecords(capture_file')) =
                 SubSeq(port_read, 1, Len(port_read) - Len(buffer)) ]_vars

\* a stopped capture with one frame in the file and a later byte, read from the
\* port, in no record
StoppedWithByteBuffered ==
    /\ capture_pc = "stopped"
    /\ ~running
    /\ packets_captured = 1
    /\ Len(FileRecords(capture_file)) = 1
    /\ Len(port_read) = bytes_captured + 1
    /\ buffer = <<>>

(***************************************************************************)
(* Live capture: byte conservation                                         *)
(***************************************************************************)

\* C29: live capture neither loses, duplicates nor reorders bytes while it
\* runs.  After every step that leaves the capture in its loop, the data of
\* the records written so far followed by the buffer is the sequence of bytes
\* read from the port so far, packets_captured is the number of records
\* written, bytes_captured is the sum of their lengths, and a step that
\* writes a frame leaves the buffer empty.
CaptureConservesBytes ==
    [][ capture_pc' = "loop" =>
            LET before == FileRecords(capture_file)
                after == FileRecords(capture_file')
            IN  /\ RecordData(after) \o buffer' = port_read'
                /\ packets_captured' = Len(after)
                /\ bytes_captured' = Len(RecordData(after))
                /\ capture_pc = "loop" /\ after # before => buffer' = <<>> ]_vars

\* a running capture that has read three bytes in two reads, written the
\* first two as one frame and holds the third in its buffer
TwoFramedOneBuffered ==
    /\ capture_pc = "loop"
    /\ running
    /\ Len(port_read) = 3
    /\ port_read[1] # port_read[2]
    /\ Len(FileRecords(capture_file)) = 1
    /\ FileRecords(capture_file)[1][2] = SubSeq(port_read, 1, 2)
    /\ buffer = SubSeq(port_read, 3, 3)
    /\ packets_captured = 1
    /\ bytes_captured = 2

(***************************************************************************)
(* Baud rate detection: the score of a sample                              *)
(***************************************************************************)

\* the score the claimed formula gives the sample of the last call, with the
\* ratios counted from the sample and the pattern flag as the analysis
\* reports it
FormulaScore ==
    LET len == Len(quality_call)
        noise == Cardinality({i \in 1 .. len : quality_call[i] \in {0, 255}})
        ascii == Cardinality({i \in 1 .. len :
                                quality_call[i] \in 32 .. 126})
        sum == 50 - (IF 10 * noise > 3 * len THEN 30 ELSE 0)
                  + (IF 20 * ascii > len /\ 2 * ascii < len THEN 20 ELSE 0)
                  + (IF quality_out.has_patterns THEN 30 ELSE 0)
    IN  IF sum < 0 THEN 0 ELSE IF sum > 100 THEN 100 ELSE sum

\* the sample of the last call is not empty
NonEmptySampleScored == quality_call # NoneValue /\ quality_call # <<>>

\* C22: for every non-empty sample the score is 50, less 30 when more than
\* 3/10 of the bytes are 0x00 or 0xFF, plus 20 when the share of printable
\* bytes (32 to 126) is strictly between 1/20 and 1/2, plus 30 when the
\* analysis reports a repeating pattern, clamped to 0..100; so the score is one
\* of 20, 40, 50, 70, 80, 100 and is at most 70 when the noise share is above
\* 3/10.  The two ratios reported are the counts over the length.
ScoreFollowsFormula ==
    NonEmptySampleScored =>
        /\ quality_out.score = FormulaScore
        /\ quality_out.score \in {20, 40, 50, 70, 80, 100}
        /\ quality_out.noise_ratio.den = Len(quality_call)
        /\ quality_out.printable_ratio.den = Len(quality_call)
        /\ quality_out.noise_ratio.num =
             Cardinality({i \in 1 .. Len(quality_call) : quality_call[i] \in {0, 255}})
        /\ quality_out.printable_ratio.num =
             Cardinality({i \in 1 .. Len(quality_call) : quality_call[i] \in 32 .. 126})
        /\ 10 * quality_out.noise_ratio.num > 3 * Len(quality_call) =>
             quality_out.score <= 70

\* a sample with a repeated run and some letters whose noise share is above
\* 3/10: all three adjustments apply and the score is 70
NoisyPatternScoredSeventy ==
    /\ NonEmptySampleScored
    /\ 10 * quality_out.noise_ratio.num > 3 * Len(quality_call)
    /\ quality_out.has_patterns
    /\ "Some ASCII" \in {quality_out.reason[i] : i \in 1 .. Len(quality_out.reason)}
    /\ quality_out.score = 70

(***************************************************************************)
(* Baud rate detection: the search for a repeated run                      *)
(***************************************************************************)

\* some run of 10, 12, 14 or 16 bytes is followed at once by its copy, at any
\* offset i with i + 2L <= len(sample), the last one included
RunRepeatsSomewhere(bytes) ==
    \E p \in 1 .. Len(PatternLengths) :
        \E i \in 0 .. Len(bytes) - PatternLengths[p] * 2 :
            RunRepeatsAt(bytes, PatternLengths[p], i)

\* C23: has_patterns is true exactly when a run of L bytes, L one of 10, 12,
\* 14, 16, equals the L bytes after it at some offset i with
\* i + 2L <= len(sample); a repeat at the very end of the sample is detected.
PatternFoundWhereverRepeated ==
    NonEmptySampleScored =>
        quality_out.has_patterns = RunRepeatsSomewhere(quality_call)

\* what the search does find: a repeat that is followed by at least one more
\* byte, i + 2L < len(sample)
PatternFoundBeforeLastByte ==
    NonEmptySampleScored =>
        quality_out.has_patterns =
            \E p \in 1 .. Len(PatternLengths) :
                \E i \in 0 .. Len(quality_call) :
                    /\ i + 2 * PatternLengths[p] < Len(quality_call)
                    /\ RunRepeatsAt(quality_call, PatternLengths[p], i)

(***************************************************************************)
(* Baud rate detection: the order of the trials and the early stop         *)
(***************************************************************************)

\* the entries of the result list that score 80 or more
GoodEntries == {i \in 1 .. Len(results) : results[i].score >= 80}

\* C24: baud rates are probed one at a time in the order 9600, 19200, 38400,
\* 57600, 115200, 4800, 2400, 1200.  Without --all no rate is probed after the
\* first candidate that scores 80 or more, and probing goes on as long as
\* there is none; with --all every rate of the catalog is probed exactly
\* once, whatever the scores.
ProbedInCatalogOrder ==
    LET catalog == <<9600, 19200, 38400, 57600, 115200, 4800, 2400, 1200>>
    IN  /\ Len(probed) <= 8
        /\ probed = SubSeq(catalog, 1, Len(probed))
        /\ ~try_all =>
            \A i \in GoodEntries :
                /\ i = Len(results)
                /\ results[i].baud = probed[Len(probed)]
                /\ baud_pc = "done"
        /\ baud_pc = "done" /\ try_all => probed = catalog
        /\ baud_pc = "done" /\ GoodEntries = {} => probed = catalog
        /\ baud_pc = "probing" => Len(probed) < 8

\* probing without --all stopped at the third rate, 38400, on the first score
\* of 80 or more, after one trial with a lower score and one without data
StoppedEarlyAtThirdRate ==
    /\ baud_pc = "done"
    /\ ~try_all
    /\ probed = <<9600, 19200, 38400>>
    /\ Len(results) = 2
    /\ results[1].score < 80
    /\ results[2].score >= 80
    /\ results[2].baud = 38400

(***************************************************************************)
(* Baud rate detection: the best match                                     *)
(***************************************************************************)

\* C25: the candidate reported as best has the highest score in the result
\* list and is the first probed among those with that score; when probing
\* stopped early the best is the candidate whose score of 80 or more stopped
\* it; with an empty result list no best match is reported.
BestIsFirstMaximum ==
    baud_pc = "done" =>
        IF results = <<>> THEN best = NoneValue
        ELSE /\ \E i \in 1 .. Len(results) :
                /\ best = results[i]
                /\ \A j \in 1 .. Len(results) : results[j].score <= results[i].score
                /\ \A j \in 1 .. i - 1 : results[j].score < results[i].score
             /\ ~try_all /\ GoodEntries # {} => best = results[Len(results)]

\* a full probe with --all in which two rates share the highest score after a
\* lower one and a higher rate scored less: the earlier of the two is best
BestAmongTiedScores ==
    /\ baud_pc = "done"
    /\ try_all
    /\ Len(results) >= 4
    /\ results[1].score < results[2].score
    /\ results[3].score = results[2].score
    /\ results[4].score < results[2].score
    /\ \A j \in 1 .. Len(results) : results[j].score <= results[2].score
    /\ best = results[2]
    /\ best.baud # results[3].baud

(***************************************************************************)
(* Baud rate detection: trials without data                                *)
(***************************************************************************)

\* C26: a rate whose trial received no byte is kept in the result list with
\* score 0 and the reason "no data received", so the list has one entry per
\* probed rate, in the order probed.
SilentRatesRetained ==
    /\ Len(results) = Len(probed)
    /\ \A i \in 1 .. Len(results) :
        /\ results[i].baud = probed[i]
        /\ results[i].bytes = 0 =>
            /\ results[i].score = 0
            /\ results[i].reason = <<"No data received">>

\* what the list holds: an entry for each probed rate that received data, and
\* none for the others
OnlyRatesWithDataRetained ==
    /\ Len(results) <= Len(probed)
    /\ \A i \in 1 .. Len(results) :
        /\ results[i].bytes > 0
        /\ results[i].baud \in {probed[j] : j \in 1 .. Len(probed)}

(***************************************************************************)
(* Signal analysis: the physical-layer classification                      *)
(***************************************************************************)

\* the rate of the table 9600: 0.104, 19200: 0.052, 38400: 0.026,
\* 57600: 0.017, 115200: 0.0087 ms whose period is nearest the width, the
\* earlier entry when two are equally near
NearestTableRate(width) ==
    LET table == << <<9600, 1040>>, <<19200, 520>>, <<38400, 260>>,
                    <<57600, 170>>, <<115200, 87>> >>
        Distance(k) == IF width >= table[k][2] THEN width - table[k][2]
                       ELSE table[k][2] - width
        nearest == CHOOSE k \in 1 .. 5 :
                      /\ \A j \in 1 .. 5 : Distance(k) <= Distance(j)
                      /\ \A j \in 1 .. k - 1 : Distance(k) < Distance(j)
    IN  table[nearest][1]

\* C27: classify_physical_layer gives one result for every pulse analysis, by
\* rules in fixed priority: an error analysis is unknown with confidence 0;
\* otherwise a minimum width strictly between 6.0 and 12.0 ms is EnviraCOM
\* with confidence 90 and estimated baud 120; otherwise a minimum width under
\* 1.0 ms is RS-485 with confidence 80 and the estimated baud of the nearest
\* table rate, the earlier entry winning ties; anything else, exactly 6.0,
\* 12.0 or 1.0 ms included, is unknown with confidence 30.  Widths are in
\* tenths of a microsecond.
ClassifiedByFixedRules ==
    signal_call.op = "classify_physical_layer" =>
        LET analysis == signal_call.analysis
        IN  IF "error" \in DOMAIN analysis
            THEN /\ signal_out.classification = "unknown"
                 /\ signal_out.confidence = 0
            ELSE LET width == analysis.min_width_ms
                 IN  IF 60000 < width /\ width < 120000
                     THEN /\ signal_out.classification = "EnviraCOM"
                          /\ signal_out.confidence = 90
                          /\ signal_out.estimated_baud = 120
                     ELSE IF width < 10000
                     THEN /\ signal_out.classification = "RS-485"
                          /\ signal_out.confidence = 80
                          /\ signal_out.estimated_baud = NearestTableRate(width)
                     ELSE /\ signal_out.classification = "unknown"
                          /\ signal_out.confidence = 30

\* a minimum width of 0.078 ms, as far from 0.104 as from 0.052, classified
\* RS-485 at 9600 baud
TieGoesToEarlierRate ==
    /\ signal_call.op = "classify_physical_layer"
    /\ "min_width_ms" \in DOMAIN signal_call.analysis
    /\ signal_call.analysis.min_width_ms = 780
    /\ signal_out.classification = "RS-485"
    /\ signal_out.estimated_baud = 9600

(***************************************************************************)
(* Signal analysis: edges                                                  *)
(***************************************************************************)

\* the logic state of sample i of the trace of the last call
StateOfSample(i) == signal_call.samples[i][2] > signal_call.threshold

\* the samples of that trace, after the first, whose state differs from the
\* state of the sample before
StateChanges ==
    {i \in 2 .. Len(signal_call.samples) : StateOfSample(i) # StateOfSample(i - 1)}

\* the k-th of them in trace order
NthStateChange(k) ==
    CHOOSE i \in StateChanges : Cardinality({j \in StateChanges : j < i}) = k - 1

\* C28: find_edges on a trace with at least one sample returns one edge for
\* each sample after the first whose state (value > threshold) differs from
\* the state of the sample before it, in trace order, at that sample's time,
\* rising when the new state is high and falling otherwise; so the first
\* sample gives no edge, neighbouring edges alternate, and the number of
\* edges is the number of state changes.
EdgesAreStateChanges ==
    signal_call.op = "find_edges" /\ signal_call.samples # <<>> =>
        /\ signal_out.kind = "return"
        /\ LET edges == signal_out.value
           IN  /\ Len(edges) = Cardinality(StateChanges)
               /\ \A k \in 1 .. Len(edges) :
                    /\ edges[k][1] = signal_call.samples[NthStateChange(k)][1]
                    /\ edges[k][2] = IF StateOfSample(NthStateChange(k))
                                     THEN "rising" ELSE "falling"
                    /\ edges[k][1] # signal_call.samples[1][1]
               /\ \A k \in 1 .. Len(edges) - 1 : edges[k][2] # edges[k + 1][2]

\* a trace that starts high, drops, stays low on a sample exactly at the
\* threshold and rises again: a falling edge at the second sample and a rising
\* edge at the fourth
HighFirstSampleNoEdge ==
    /\ signal_call.op = "find_edges"
    /\ Len(signal_call.samples) = 5
    /\ signal_call.threshold = 5
    /\ [i \in 1 .. 5 |-> signal_call.samples[i][2]] = <<10, 0, 5, 10, 10>>
    /\ signal_out = Return(<< <<SampleTime(2), "falling">>, <<SampleTime(4), "rising">> >>)

(***************************************************************************)
(* Replay: nothing is sent without confirmation                            *)
(***************************************************************************)

\* the run replays a range: it has ended, was not a dry run, was confirmed,
\* had no --packet option and its port opened
RangeReplayed ==
    /\ replay_pc = "ended"
    /\ ~replay_options.dry_run
    /\ confirmation = "yes"
    /\ replay_conn = "closed"
    /\ ~replay_options.has_packet

\* the end of the range of the run: --end, or the number of packets
RangeEnd ==
    IF replay_options.has_end THEN replay_options.end ELSE Len(replay_packets)

\* C30: the replay tool writes to the bus only after the user has confirmed
\* and only outside dry-run mode.  In a run with --dry-run, or whose
\* confirmation is declined or not yet given, no serial connection is opened
\* and nothing is written; a replay of the range start..end writes exactly the
\* data of the packets start..end-1, once each in captured order, when
\* 0 <= start < end <= number of packets, and writes nothing otherwise, in
\* particular when start < 0 or end > number of packets.
ReplayOnlyAfterConfirmation ==
    /\ replay_options.dry_run \/ confirmation # "yes" =>
        /\ replay_conn = "none"
        /\ bus_written = <<>>
    /\ RangeReplayed =>
        LET start == replay_options.start
        IN  IF 0 <= start /\ start < RangeEnd /\ RangeEnd <= Len(replay_packets)
            THEN bus_written =
                    [k \in 1 .. RangeEnd - start |-> replay_packets[start + k][2]]
            ELSE bus_written = <<>>
    /\ \A k \in 1 .. Len(bus_written) :
        \E i \in 1 .. Len(replay_packets) : bus_written[k] = replay_packets[i][2]

\* a confirmed replay of the range 0..2 of a capture of two different packets
\* has written both to the bus, the first one first
BothPacketsSentInOrder ==
    /\ RangeReplayed
    /\ replay_options.start = 0
    /\ replay_options.has_end
    /\ replay_options.end = 2
    /\ Len(replay_packets) = 2
    /\ replay_packets[1][2] # replay_packets[2][2]
    /\ bus_written = <<replay_packets[1][2], replay_packets[2][2]>>

====
